---- MODULE Spec2Model ----
(***************************************************************************)
(* A model of ttbuild: the TeamCity webhook to Discord bridge.             *)
(*                                                                         *)
(* JSON values are tagged records; strings are sequences of one-character  *)
(* strings, so that slicing, sanitising and length limits are computed as  *)
(* the code computes them.                                                 *)
(***************************************************************************)
EXTENDS Integers, Sequences, FiniteSets, TLC

VARIABLES
  pc,        \* position of the operation being run
  txtIn,     \* truncateText: the text argument (a JS value)
  txtMax,    \* truncateText: the maxLength argument
  txtOut,    \* truncateText: the returned string
  hostZone,  \* the host's offset from UTC, in minutes
  fnIn,      \* a formatter called on its own: the argument (a JS value)
  fnOut,     \* a formatter called on its own: what the call returned or threw
  body,      \* the webhook handler: req.body (a JS value)
  handlerEmbed,  \* the webhook handler: the card built for the delivery (its `embed`)
  response,  \* the webhook handler: the HTTP statuses sent, in order
  sink,      \* the cards the notification channel has taken, in order
  rejected,  \* how many sends the notification channel has rejected
  chanOk,    \* whether the channel lookup finds a text channel
  walk,      \* the generic walk taken step by step: its call stack, card and calls
  flights    \* several deliveries at once: each delivery's handler

textVars == <<txtIn, txtMax, txtOut>>
fnVars == <<fnIn, fnOut>>
handlerVars == <<body, handlerEmbed, response, sink, rejected, chanOk>>
auxVars == <<walk, flights>>
vars == <<pc, hostZone, textVars, fnVars, handlerVars, auxVars>>

(***************************************************************************)
(* Bounds of the model.                                                    *)
(***************************************************************************)
MaxStrLen == 5
MaxTruncLen == 7
\* the most filler keys in front of a generated payload
MaxWide == 20

(***************************************************************************)
(* JS values.                                                              *)
(***************************************************************************)
Undef == [t |-> "undef"]
Null == [t |-> "null"]
Bool(b) == [t |-> "bool", b |-> b]
Num(n) == [t |-> "num", n |-> n]
Str(s) == [t |-> "str", s |-> s]
Arr(a) == [t |-> "arr", a |-> a]
Obj(e) == [t |-> "obj", e |-> e]
\* a reference from inside an object back to the object that holds it
Cycle == [t |-> "cycle"]
\* an object that more than one key refers to: `name` tells it from every other object
Shared(name, e) == [t |-> "obj", e |-> e, shared |-> name]

Max(a, b) == IF a >= b THEN a ELSE b
Min(a, b) == IF a <= b THEN a ELSE b

\* typeof v === 'string'
IsString(v) == v.t = "str"

\* String.prototype.slice(0, n) for n >= 0
Slice0(s, n) == SubSeq(s, 1, Min(n, Len(s)))

(***************************************************************************)
(* Characters. A character is a one-element string; a few stand for a     *)
(* character TLA+ cannot write: "^@" is U+0000, "^G" U+0007, "^?" U+007F  *)
(* (control characters), and the emoji are named by their UTF-16 units.   *)
(***************************************************************************)
LowerChars ==
  <<"a", "b", "c", "d", "e", "f", "g", "h", "i", "j", "k", "l", "m", "n", "o", "p", "q", "r", "s", "t", "u", "v", "w", "x", "y", "z">>
UpperChars ==
  <<"A", "B", "C", "D", "E", "F", "G", "H", "I", "J", "K", "L", "M", "N", "O", "P", "Q", "R", "S", "T", "U", "V", "W", "X", "Y", "Z">>
DigitChars == <<"0", "1", "2", "3", "4", "5", "6", "7", "8", "9">>

\* `const x = value; ...`: F of the value, which is worked out once
Bind(value, F(_)) == F(value)

Range(f) == {f[i] : i \in DOMAIN f}
IsUpperChar(c) == c \in Range(UpperChars)
IsLowerChar(c) == c \in Range(LowerChars)
IsDigitChar(c) == c \in Range(DigitChars)
\* \w of a JS regular expression
IsWordChar(c) == IsUpperChar(c) \/ IsLowerChar(c) \/ IsDigitChar(c) \/ c = "_"
\* [\x00-\x08\x0B\x0C\x0E-\x1F\x7F], by its representatives
CtrlChars == {"^@", "^G", "\f", "^?"}
\* \s of a JS regular expression, by its representatives
WsChars == {" ", "\t", "\n", "\r", "\f"}
IsWs(c) == c \in WsChars

ToUpperChar(c) ==
  IF IsLowerChar(c) THEN UpperChars[CHOOSE i \in DOMAIN LowerChars : LowerChars[i] = c] ELSE c
ToLowerChar(c) ==
  IF IsUpperChar(c) THEN LowerChars[CHOOSE i \in DOMAIN UpperChars : UpperChars[i] = c] ELSE c
\* String.prototype.toLowerCase
ToLowerCase(s) == [i \in 1..Len(s) |-> ToLowerChar(s[i])]

\* the elements of s at the indices that satisfy Keep, in order
KeepAt(s, Keep(_)) ==
  LET idx == SelectSeq([i \in 1..Len(s) |-> i], Keep)
  IN [j \in 1..Len(idx) |-> s[idx[j]]]

\* String.prototype.includes
Includes(s, sub) ==
  \E i \in 1..(Len(s) - Len(sub) + 1) : SubSeq(s, i, i + Len(sub) - 1) = sub
\* String.prototype.startsWith
StartsWith(s, pre) == Len(s) >= Len(pre) /\ SubSeq(s, 1, Len(pre)) = pre

\* String.prototype.trim
Trim(s) ==
  Bind({i \in 1..Len(s) : ~IsWs(s[i])},
       LAMBDA solid : IF solid = {} THEN <<>>
                      ELSE SubSeq(s, CHOOSE i \in solid : \A j \in solid : i <= j,
                                     CHOOSE i \in solid : \A j \in solid : i >= j))

RECURSIVE NatToStr(_)
NatToStr(n) ==
  IF n < 10 THEN <<DigitChars[n + 1]>>
  ELSE Append(NatToStr(n \div 10), DigitChars[(n % 10) + 1])
\* String(n) for an integer n
NumToStr(n) == IF n < 0 THEN <<"-">> \o NatToStr(-n) ELSE NatToStr(n)

RECURSIVE Join(_, _)
\* Array.prototype.join on an array of strings
Join(parts, sep) ==
  IF Len(parts) = 0 THEN <<>>
  ELSE IF Len(parts) = 1 THEN parts[1]
  ELSE parts[1] \o sep \o Join(Tail(parts), sep)

S_true == <<"t", "r", "u", "e">>
S_false == <<"f", "a", "l", "s", "e">>
S_null == <<"n", "u", "l", "l">>
S_undefined == <<"u", "n", "d", "e", "f", "i", "n", "e", "d">>
S_objectObject == <<"[", "o", "b", "j", "e", "c", "t", " ", "O", "b", "j", "e", "c", "t", "]">>
S_comma == <<",">>

(***************************************************************************)
(* JS semantics of the values.                                             *)
(***************************************************************************)
\* !!v
Truthy(v) ==
  CASE v.t = "undef" -> FALSE
    [] v.t = "null" -> FALSE
    [] v.t = "bool" -> v.b
    [] v.t = "num" -> v.n # 0
    [] v.t = "str" -> Len(v.s) > 0
    [] OTHER -> TRUE

\* typeof v
TypeOf(v) ==
  CASE v.t = "undef" -> "undefined"
    [] v.t = "bool" -> "boolean"
    [] v.t = "num" -> "number"
    [] v.t = "str" -> "string"
    [] OTHER -> "object"

\* v === undefined || v === null: reading a property of v throws a TypeError
IsNullish(v) == v.t \in {"undef", "null"}

\* Object.keys(v) with the values, in key order
EntriesOf(v) ==
  CASE v.t = "obj" -> v.e
    [] v.t = "arr" -> [i \in 1..Len(v.a) |-> [k |-> NatToStr(i - 1), v |-> v.a[i]]]
    [] v.t = "str" -> [i \in 1..Len(v.s) |-> [k |-> NatToStr(i - 1), v |-> Str(<<v.s[i]>>)]]
    [] OTHER -> <<>>

\* the value of the last of the entries `es` with key k
Lookup(es, k) ==
  Bind({i \in 1..Len(es) : es[i].k = k},
       LAMBDA hits : IF hits = {} THEN Undef
                     ELSE es[CHOOSE i \in hits : \A j \in hits : i >= j].v)

\* v[k] for a v that is not nullish
Get(v, k) == Lookup(EntriesOf(v), k)

\* v?.[k]
OptGet(v, k) == IF IsNullish(v) THEN Undef ELSE Get(v, k)

\* a || b
OrElse(a, b) == IF Truthy(a) THEN a ELSE b

RECURSIVE ToStr(_)
\* String(v), and v inside a template literal
ToStr(v) ==
  CASE v.t = "undef" -> S_undefined
    [] v.t = "null" -> S_null
    [] v.t = "bool" -> (IF v.b THEN S_true ELSE S_false)
    [] v.t = "num" -> NumToStr(v.n)
    [] v.t = "str" -> v.s
    [] v.t = "arr" ->
         Join([i \in 1..Len(v.a) |-> IF IsNullish(v.a[i]) THEN <<>> ELSE ToStr(v.a[i])], S_comma)
    [] OTHER -> S_objectObject

(***************************************************************************)
(* src/utils/text.ts                                                       *)
(***************************************************************************)
DISCORD_LIMITS_TITLE == 256
DISCORD_LIMITS_FIELD_NAME == 256
DISCORD_LIMITS_FIELD_VALUE == 1024
DISCORD_LIMITS_FOOTER_TEXT == 2048

DefaultSuffix == <<".", ".", ".">>

\* truncateText with the slice taken at maxLength, not at maxLength - suffix.length
truncateText_NoSuffixRoom(text, maxLength, suffix) ==
  IF ~IsString(text) \/ Len(text.s) = 0 THEN <<>>
  ELSE IF Len(text.s) <= maxLength THEN text.s
  ELSE Slice0(text.s, Max(0, maxLength)) \o suffix

truncateText(text, maxLength, suffix) ==
  IF ~IsString(text) \/ Len(text.s) = 0 THEN <<>>
  ELSE IF Len(text.s) <= maxLength THEN text.s
  ELSE LET truncateLength == Max(0, maxLength - Len(suffix))
       IN Slice0(text.s, truncateLength) \o suffix

sanitizeForDiscord(text) ==
  IF ~IsString(text) \/ Len(text.s) = 0 THEN <<>>
  ELSE Bind([i \in 1..Len(text.s) |-> IF text.s[i] \in CtrlChars THEN " " ELSE text.s[i]],
            \* /\s+/g -> ' ': of a run of whitespace the first character stays, as a space
            LAMBDA s1 : Trim(KeepAt([i \in 1..Len(s1) |-> IF IsWs(s1[i]) THEN " " ELSE s1[i]],
                                    LAMBDA i : ~IsWs(s1[i]) \/ i = 1 \/ ~IsWs(s1[i - 1]))))

\* formatEmbedTitle with the title sanitized and not truncated
formatEmbedTitle_NoLimit(text) == sanitizeForDiscord(text)

formatEmbedTitle(text) ==
  truncateText(Str(sanitizeForDiscord(text)), DISCORD_LIMITS_TITLE, DefaultSuffix)

formatEmbedFieldName(text) ==
  truncateText(Str(sanitizeForDiscord(text)), DISCORD_LIMITS_FIELD_NAME, DefaultSuffix)

formatEmbedFieldValue(text) ==
  truncateText(Str(sanitizeForDiscord(text)), DISCORD_LIMITS_FIELD_VALUE, DefaultSuffix)

S_http == <<"h", "t", "t", "p", ":", "/", "/">>
S_https == <<"h", "t", "t", "p", "s", ":", "/", "/">>

\* new URL(s) does not throw, for an s that starts with http:// or https://: after the
\* scheme and any further slashes there is a host, and the host holds no whitespace
UrlParses(s) ==
  Bind(IF StartsWith(s, S_https) THEN SubSeq(s, Len(S_https) + 1, Len(s))
       ELSE SubSeq(s, Len(S_http) + 1, Len(s)), LAMBDA afterScheme :
  Bind({i \in 1..Len(afterScheme) : afterScheme[i] # "/"}, LAMBDA solid :
  Bind(IF solid = {} THEN Len(afterScheme) + 1
       ELSE CHOOSE i \in solid : \A j \in solid : i <= j, LAMBDA start :
  Bind({i \in start..Len(afterScheme) : afterScheme[i] \in {"/", "?", "#"}}, LAMBDA ends :
  Bind(IF ends = {} THEN Len(afterScheme) + 1
       ELSE CHOOSE i \in ends : \A j \in ends : i <= j, LAMBDA stop :
  Bind(SubSeq(afterScheme, start, stop - 1), LAMBDA host :
    Len(host) > 0 /\ \A i \in 1..Len(host) : ~IsWs(host[i])))))))

formatUrl(url) ==
  IF ~Truthy(url) \/ ~IsString(url) THEN <<>>
  ELSE Bind(Trim(url.s),
            LAMBDA trimmed :
              IF ~StartsWith(trimmed, S_http) /\ ~StartsWith(trimmed, S_https) THEN trimmed
              ELSE IF UrlParses(trimmed) THEN trimmed
              ELSE <<>>)

(***************************************************************************)
(* src/utils/formatting.ts                                                 *)
(***************************************************************************)
DigitVal(c) == (CHOOSE i \in DOMAIN DigitChars : DigitChars[i] = c) - 1

RECURSIVE ParseDigits(_)
\* parseInt(s, 10) of a string of digits
ParseDigits(s) ==
  IF Len(s) = 0 THEN 0
  ELSE 10 * ParseDigits(SubSeq(s, 1, Len(s) - 1)) + DigitVal(s[Len(s)])

\* /^\d{8}T\d{6}[+-]\d{4}$/
MatchesTimestamp(s) ==
  /\ Len(s) = 20
  /\ \A i \in (1..8) \cup (10..15) \cup (17..20) : IsDigitChar(s[i])
  /\ s[9] = "T"
  /\ s[16] \in {"+", "-"}

\* the day number (days since 1970-01-01) of a proleptic Gregorian date; a day past
\* the end of the month runs into the next month, as in Date's MakeDay
DaysFromCivil(y, m, d) ==
  Bind(IF m <= 2 THEN y - 1 ELSE y, LAMBDA yy :
  Bind(yy \div 400, LAMBDA era :
  Bind(yy - era * 400, LAMBDA yoe :
  Bind(IF m > 2 THEN m - 3 ELSE m + 9, LAMBDA mp :
  Bind((153 * mp + 2) \div 5 + d - 1, LAMBDA doy :
  Bind(yoe * 365 + yoe \div 4 - yoe \div 100 + doy, LAMBDA doe :
    era * 146097 + doe - 719468))))))

\* the [y, m, d] of a day number
CivilFromDays(days) ==
  Bind(days + 719468, LAMBDA z :
  Bind(z \div 146097, LAMBDA era :
  Bind(z - era * 146097, LAMBDA doe :
  Bind((doe - doe \div 1460 + doe \div 36524 - doe \div 146096) \div 365, LAMBDA yoe :
  Bind(doe - (365 * yoe + yoe \div 4 - yoe \div 100), LAMBDA doy :
  Bind((5 * doy + 2) \div 153, LAMBDA mp :
  Bind(doy - (153 * mp + 2) \div 5 + 1, LAMBDA d :
  Bind(IF mp < 10 THEN mp + 3 ELSE mp - 9, LAMBDA m :
    [y |-> (yoe + era * 400) + (IF m <= 2 THEN 1 ELSE 0), m |-> m, d |-> d]))))))))

SecondsPerDay == 86400

\* no Date
NoDate == [ok |-> FALSE]

\* A Date is [ok, day, sec]: the instant is second `sec` of UTC day `day`.
\* hostTz is the host's offset from UTC in minutes (getFullYear, getMonth and getDate
\* read the date in the host's zone).
parseTeamCityTimestamp(teamcityTimestamp, hostTz) ==
  IF ~Truthy(teamcityTimestamp) \/ ~IsString(teamcityTimestamp) THEN NoDate
  ELSE IF ~MatchesTimestamp(teamcityTimestamp.s) THEN NoDate
  ELSE LET s == teamcityTimestamp.s
           yearNum == ParseDigits(SubSeq(s, 1, 4))
           monthNum == ParseDigits(SubSeq(s, 5, 6))
           dayNum == ParseDigits(SubSeq(s, 7, 8))
           hourNum == ParseDigits(SubSeq(s, 10, 11))
           minuteNum == ParseDigits(SubSeq(s, 12, 13))
           secondNum == ParseDigits(SubSeq(s, 14, 15))
           tzHour == ParseDigits(SubSeq(s, 17, 18))
           tzMinute == ParseDigits(SubSeq(s, 19, 20))
           tzSign == IF s[16] = "-" THEN -1 ELSE 1
       IN IF monthNum < 1 \/ monthNum > 12 \/ dayNum < 1 \/ dayNum > 31
             \/ hourNum > 23 \/ minuteNum > 59 \/ secondNum > 59
          THEN NoDate
          \* new Date(isoString) is an invalid Date for an offset out of range
          ELSE IF tzHour > 23 \/ tzMinute > 59 THEN NoDate
          ELSE LET localSec == hourNum * 3600 + minuteNum * 60 + secondNum
               IN Bind(localSec - tzSign * (tzHour * 3600 + tzMinute * 60), LAMBDA utcSec :
                  Bind([ok |-> TRUE,
                        day |-> DaysFromCivil(yearNum, monthNum, 1) + (dayNum - 1)
                                + utcSec \div SecondsPerDay,
                        sec |-> utcSec % SecondsPerDay], LAMBDA date :
                    \* getFullYear, getMonth and getDate of the date, in the host's zone
                    IF CivilFromDays(date.day + (date.sec + hostTz * 60) \div SecondsPerDay)
                         # [y |-> yearNum, m |-> monthNum, d |-> dayNum]
                    THEN NoDate
                    ELSE date))

MonthNames ==
  <<<<"J", "a", "n">>,
    <<"F", "e", "b">>,
    <<"M", "a", "r">>,
    <<"A", "p", "r">>,
    <<"M", "a", "y">>,
    <<"J", "u", "n">>,
    <<"J", "u", "l">>,
    <<"A", "u", "g">>,
    <<"S", "e", "p">>,
    <<"O", "c", "t">>,
    <<"N", "o", "v">>,
    <<"D", "e", "c">>>>
S_commaSpace == <<",", " ">>
S_colon == <<":">>
S_space == <<" ">>
S_AM == <<"A", "M">>
S_PM == <<"P", "M">>
S_UTC == <<"U", "T", "C">>
S_GMT == <<"G", "M", "T">>
S_InvalidDate == <<"I", "n", "v", "a", "l", "i", "d", " ", "d", "a", "t", "e">>
S_0s == <<"0", "s">>
S_NaN == <<"N", "a", "N">>
S_Unknown == <<"U", "n", "k", "n", "o", "w", "n">>
S_Completing == <<"C", "o", "m", "p", "l", "e", "t", "i", "n", "g", ".", ".", ".">>

TwoDigits(n) == IF n < 10 THEN <<"0">> \o NatToStr(n) ELSE NatToStr(n)

\* date.toLocaleString('en-US', {year, month: 'short', day, hour, minute, second,
\* timeZoneName: 'short'}) in the host's zone, e.g. "Aug 12, 2025, 12:00:12 AM GMT-3"
formatDateForDiscord(date, hostTz) ==
  LET hostSec == date.sec + hostTz * 60
      sod == hostSec % SecondsPerDay
      h24 == sod \div 3600
      h12 == IF h24 % 12 = 0 THEN 12 ELSE h24 % 12
      absTz == IF hostTz < 0 THEN -hostTz ELSE hostTz
      zone == IF hostTz = 0 THEN S_UTC
              ELSE S_GMT \o (IF hostTz < 0 THEN <<"-">> ELSE <<"+">>) \o NatToStr(absTz \div 60)
                   \o (IF absTz % 60 = 0 THEN <<>> ELSE S_colon \o TwoDigits(absTz % 60))
  IN Bind(CivilFromDays(date.day + hostSec \div SecondsPerDay), LAMBDA civil :
       MonthNames[civil.m] \o S_space \o NatToStr(civil.d) \o S_commaSpace
       \o NumToStr(civil.y) \o S_commaSpace \o TwoDigits(h12) \o S_colon
       \o TwoDigits((sod % 3600) \div 60) \o S_colon \o TwoDigits(sod % 60) \o S_space
       \o (IF h24 < 12 THEN S_AM ELSE S_PM) \o S_space \o zone)

formatTeamCityTimestamp(teamcityTimestamp, hostTz) ==
  Bind(parseTeamCityTimestamp(teamcityTimestamp, hostTz),
       LAMBDA date : IF date.ok THEN formatDateForDiscord(date, hostTz) ELSE S_InvalidDate)

\* A JS number is [nan |-> TRUE] or [nan |-> FALSE, n |-> integer].
NaN == [nan |-> TRUE]
Number(n) == [nan |-> FALSE, n |-> n]

\* the digits of a decimal integer literal, or nothing else
IsNumeric(s) == Len(s) > 0 /\ \A i \in 1..Len(s) : IsDigitChar(s[i])

\* ToNumber(v), as the relational and arithmetic operators apply it
ToNumber(v) ==
  CASE v.t = "num" -> Number(v.n)
    [] v.t = "null" -> Number(0)
    [] v.t = "bool" -> Number(IF v.b THEN 1 ELSE 0)
    [] v.t = "str" ->
         Bind(Trim(v.s),
              LAMBDA s : IF Len(s) = 0 THEN Number(0)
                         ELSE IF IsNumeric(s) THEN Number(ParseDigits(s))
                         ELSE IF s[1] = "-" /\ IsNumeric(Tail(s)) THEN Number(-ParseDigits(Tail(s)))
                         ELSE NaN)
    [] v.t = "arr" -> (IF Len(v.a) = 0 THEN Number(0) ELSE NaN)
    [] OTHER -> NaN

\* formatElapsedTime of a JS number
ElapsedText(x) ==
  IF x.nan THEN S_NaN \o <<"s">>
  ELSE IF x.n < 0 THEN S_0s
  ELSE LET hours == x.n \div 3600
           minutes == (x.n % 3600) \div 60
           remainingSeconds == x.n % 60
           hPart == IF hours > 0 THEN <<NatToStr(hours) \o <<"h">> >> ELSE <<>>
           mPart == IF minutes > 0 THEN <<NatToStr(minutes) \o <<"m">> >> ELSE <<>>
           sPart == IF remainingSeconds > 0 \/ Len(hPart \o mPart) = 0
                    THEN <<NatToStr(remainingSeconds) \o <<"s">> >> ELSE <<>>
       IN Join(hPart \o mPart \o sPart, S_space)

\* formatElapsedTime with the hours carried into days and the days dropped
formatElapsedTime_DayRollover(seconds) ==
  Bind(ToNumber(seconds),
       LAMBDA x : IF ~x.nan /\ x.n >= SecondsPerDay THEN ElapsedText(Number(x.n % SecondsPerDay))
                  ELSE ElapsedText(x))

formatElapsedTime(seconds) == ElapsedText(ToNumber(seconds))

formatEstimatedCompletion(elapsedSeconds, estimatedTotalSeconds) ==
  Bind(ToNumber(elapsedSeconds), LAMBDA elapsed :
  Bind(ToNumber(estimatedTotalSeconds), LAMBDA total :
    IF (~total.nan /\ total.n <= 0) \/ (~elapsed.nan /\ elapsed.n < 0) THEN S_Unknown
    ELSE IF total.nan \/ elapsed.nan THEN ElapsedText(NaN)
    ELSE Bind(Max(0, total.n - elapsed.n),
              LAMBDA remainingSeconds : IF remainingSeconds = 0 THEN S_Completing
                                        ELSE ElapsedText(Number(remainingSeconds)))))

\* calculateDuration with the distance between the two instants, whatever their order
calculateDuration_Absolute(startTimestamp, endTimestamp, hostTz) ==
  Bind(parseTeamCityTimestamp(startTimestamp, hostTz), LAMBDA startDate :
  Bind(parseTeamCityTimestamp(endTimestamp, hostTz), LAMBDA endDate :
    IF ~startDate.ok \/ ~endDate.ok THEN Null
    ELSE Bind((endDate.day - startDate.day) * SecondsPerDay + (endDate.sec - startDate.sec),
              LAMBDA durationSeconds :
                Str(ElapsedText(Number(IF durationSeconds < 0 THEN -durationSeconds
                                       ELSE durationSeconds))))))

\* the duration text, or Null
calculateDuration(startTimestamp, endTimestamp, hostTz) ==
  Bind(parseTeamCityTimestamp(startTimestamp, hostTz), LAMBDA startDate :
  Bind(parseTeamCityTimestamp(endTimestamp, hostTz), LAMBDA endDate :
    IF ~startDate.ok \/ ~endDate.ok THEN Null
    ELSE LET durationSeconds == (endDate.day - startDate.day) * SecondsPerDay
                                + (endDate.sec - startDate.sec)
         IN Str(ElapsedText(Number(durationSeconds)))))


(***************************************************************************)
(* The card under construction (discord.js EmbedBuilder). A builder state  *)
(* is [embed, visited, threw]: the card so far, the generic walk's visited *)
(* set, and whether an exception is propagating.                           *)
(***************************************************************************)
\* the most fields EmbedBuilder.addFields lets a card hold
DISCORD_MAX_FIELDS == 25

NewEmbed(title, color, footer) ==
  [t |-> "embed", title |-> title, description |-> <<>>, color |-> color,
   timestamp |-> "now", footer |-> footer, fields |-> <<>>]

Builder(embed) == [embed |-> embed, visited |-> {}, threw |-> FALSE]

\* EmbedBuilder.addFields validates what it is given and throws when the card would
\* hold more than 25 fields, or the name or the value is empty or over its limit
AddFieldsRejects(embed, name, value) ==
  \/ Len(embed.fields) + 1 > DISCORD_MAX_FIELDS
  \/ Len(name) < 1
  \/ Len(name) > DISCORD_LIMITS_FIELD_NAME
  \/ Len(value) < 1
  \/ Len(value) > DISCORD_LIMITS_FIELD_VALUE

\* embed.addFields({name, value, inline})
addFields(b, name, value, inline) ==
  IF b.threw THEN b
  ELSE IF AddFieldsRejects(b.embed, name, value) THEN [b EXCEPT !.threw = TRUE]
  ELSE [b EXCEPT !.embed.fields = Append(@, [name |-> name, value |-> value, inline |-> inline])]

\* a statement that throws
Throw(b) == [b EXCEPT !.threw = TRUE]

(***************************************************************************)
(* src/embedbuilder.ts                                                     *)
(***************************************************************************)
MAX_DEPTH == 2
MAX_FIELDS == 20
MAX_ARRAY_ITEMS == 5
\* shouldBeInline: the longest value shown inline
INLINE_MAX_LENGTH == 50
GenericColor == 44678

K_id == <<"i", "d">>
K_number == <<"n", "u", "m", "b", "e", "r">>
K_status == <<"s", "t", "a", "t", "u", "s">>
K_state == <<"s", "t", "a", "t", "e">>
K_statusText == <<"s", "t", "a", "t", "u", "s", "T", "e", "x", "t">>
K_buildType == <<"b", "u", "i", "l", "d", "T", "y", "p", "e">>
K_agent == <<"a", "g", "e", "n", "t">>
K_name == <<"n", "a", "m", "e">>
K_username == <<"u", "s", "e", "r", "n", "a", "m", "e">>
K_count == <<"c", "o", "u", "n", "t">>
K_url == <<"u", "r", "l">>
K_href == <<"h", "r", "e", "f">>
K_date == <<"d", "a", "t", "e">>
K_time == <<"t", "i", "m", "e">>
K_eventType == <<"e", "v", "e", "n", "t", "T", "y", "p", "e">>
K_payload == <<"p", "a", "y", "l", "o", "a", "d">>
S_Link_open == <<"[", "L", "i", "n", "k", "]", "(">>
S_closeParen == <<")">>
\* the check mark and the cross are one UTF-16 unit each
S_Yes == <<"[check]", " ", "Y", "e", "s">>
S_No == <<"[cross]", " ", "N", "o">>
S_Object == <<"[", "O", "b", "j", "e", "c", "t", "]">>
S_Empty == <<"E", "m", "p", "t", "y">>
S_andMore_pre == <<".", ".", ".", " ", "a", "n", "d", " ">>
S_andMore_post == <<" ", "m", "o", "r", "e">>
S_WebhookEvent == <<"W", "e", "b", "h", "o", "o", "k", " ", "E", "v", "e", "n", "t", ":", " ">>
S_WebhookEventInvalid ==
  <<"W", "e", "b", "h", "o", "o", "k", " ", "E", "v", "e", "n", "t", ":", " ", "I", "n", "v",
    "a", "l", "i", "d">>
S_WebhookNotification ==
  <<"W", "e", "b", "h", "o", "o", "k", " ", "N", "o", "t", "i", "f", "i", "c", "a", "t", "i",
    "o", "n">>
S_Error == <<"E", "r", "r", "o", "r">>
S_Payload == <<"P", "a", "y", "l", "o", "a", "d">>
S_InvalidOrMissing ==
  <<"I", "n", "v", "a", "l", "i", "d", " ", "o", "r", " ", "m", "i", "s", "s", "i", "n", "g",
    " ", "e", "v", "e", "n", "t", " ", "d", "a", "t", "a">>
S_ErrorProcessing ==
  <<"E", "r", "r", "o", "r", " ", "p", "r", "o", "c", "e", "s", "s", "i", "n", "g", " ", "p",
    "a", "y", "l", "o", "a", "d", " ", "d", "a", "t", "a">>
S_colonSpace == <<":", " ">>
S_newline == <<"\n">>

priorityFields == <<K_id, K_number, K_status, K_state, K_statusText, K_buildType, K_agent>>
inlineFields == <<K_id, K_number, K_status, K_state, K_name, K_username, K_count>>

formatFieldName(fieldName) ==
  LET \* /([A-Z])/g -> ' $1'
      spaced == [i \in 1..(2 * Len(fieldName)) |->
                   IF i % 2 = 0 THEN fieldName[i \div 2]
                   ELSE IF IsUpperChar(fieldName[(i + 1) \div 2]) THEN " " ELSE ""]
  IN Bind(SelectSeq(spaced, LAMBDA c : c # ""), LAMBDA s1 :
     \* /[-_]/g -> ' '
     Bind([i \in 1..Len(s1) |-> IF s1[i] \in {"-", "_"} THEN " " ELSE s1[i]], LAMBDA s2 :
     \* /\b\w/g -> upper case
       Trim([i \in 1..Len(s2) |->
               IF IsWordChar(s2[i]) /\ (i = 1 \/ ~IsWordChar(s2[i - 1]))
               THEN ToUpperChar(s2[i]) ELSE s2[i]])))

shouldBeInline(key, value) ==
  IF Len(ToStr(value)) > INLINE_MAX_LENGTH THEN FALSE
  ELSE \E i \in DOMAIN inlineFields : Includes(ToLowerCase(key), ToLowerCase(inlineFields[i]))

formatPrimitiveValue(key, value, hostTz) ==
  Bind(ToStr(value), LAMBDA stringValue :
  Bind(ToLowerCase(key), LAMBDA lower :
    IF Includes(lower, K_url) \/ Includes(lower, K_href)
    THEN Bind(formatUrl(Str(stringValue)),
              LAMBDA url : IF Len(url) > 0 THEN S_Link_open \o url \o S_closeParen
                           ELSE stringValue)
    ELSE IF (Includes(lower, K_date) \/ Includes(lower, K_time)) /\ MatchesTimestamp(stringValue)
    THEN Bind(formatTeamCityTimestamp(Str(stringValue), hostTz),
              LAMBDA formatted : IF formatted # S_InvalidDate THEN formatted ELSE stringValue)
    ELSE IF value.t = "bool" THEN (IF value.b THEN S_Yes ELSE S_No)
    ELSE stringValue))

isSimpleObject(obj) ==
  IF ~Truthy(obj) \/ TypeOf(obj) # "object" THEN FALSE
  \* an object that holds itself holds an object
  ELSE IF obj.t = "cycle" THEN FALSE
  ELSE Bind(EntriesOf(obj),
            LAMBDA es : /\ Len(es) <= 3
                        /\ \A i \in 1..Len(es) : TypeOf(es[i].v) \in {"string", "number", "boolean"})

formatSimpleObject(obj, hostTz) ==
  Bind(SelectSeq(EntriesOf(obj), LAMBDA e : ~IsNullish(e.v)),
       LAMBDA es :
         Join([i \in 1..Len(es) |->
                 formatFieldName(es[i].k) \o S_colonSpace
                 \o formatPrimitiveValue(es[i].k, es[i].v, hostTz)],
              S_commaSpace))

formatArray(arr, hostTz) ==
  IF Len(arr.a) = 0 THEN S_Empty
  ELSE LET displayItems == SubSeq(arr.a, 1, Min(MAX_ARRAY_ITEMS, Len(arr.a)))
       IN Bind(Join([i \in 1..Len(displayItems) |->
                       LET item == displayItems[i]
                       IN IF TypeOf(item) = "object" /\ item.t # "null"
                          THEN (IF isSimpleObject(item) THEN formatSimpleObject(item, hostTz)
                                ELSE S_Object)
                          ELSE ToStr(item)],
                    S_newline),
               LAMBDA formatted :
                 IF Len(arr.a) > MAX_ARRAY_ITEMS
                 THEN formatted \o S_newline \o S_andMore_pre
                      \o NatToStr(Len(arr.a) - MAX_ARRAY_ITEMS) \o S_andMore_post
                 ELSE formatted)

RECURSIVE processObjectFields(_, _, _, _, _, _)
RECURSIVE processField(_, _, _, _, _, _)
RECURSIVE WalkKeys(_, _, _, _, _, _, _, _)

\* Object identity is the place in the event: `path` is the sequence of key positions
\* that leads from the payload to the object. An object that several keys refer to is
\* one object: it carries a name, and the name is its identity wherever it is met.
Identity(obj, path) == IF "shared" \in DOMAIN obj THEN <<0, obj.shared>> ELSE path

\* the walk with the depth limit one level further down
processObjectFields_Deeper(b, obj, prefix, depth, path, hostTz) ==
  IF b.threw THEN b
  ELSE IF depth > MAX_DEPTH + 1 THEN b
  ELSE IF Identity(obj, path) \in b.visited THEN b
  ELSE LET b1 == [b EXCEPT !.visited = @ \cup {Identity(obj, path)}]
       IN IF Len(b1.embed.fields) >= MAX_FIELDS THEN b1
          ELSE LET es == EntriesOf(obj)
                   isPriority(i) == es[i].k \in Range(priorityFields)
                   all == [i \in 1..Len(es) |-> i]
                   b2 == WalkKeys(b1, es, SelectSeq(all, isPriority), FALSE,
                                  prefix, depth, path, hostTz)
               IN WalkKeys(b2, es, SelectSeq(all, LAMBDA i : ~isPriority(i)), TRUE,
                           prefix, depth, path, hostTz)

\* the walk that takes the regular keys before the priority keys
processObjectFields_RegularFirst(b, obj, prefix, depth, path, hostTz) ==
  IF b.threw THEN b
  ELSE IF depth > MAX_DEPTH THEN b
  ELSE IF Identity(obj, path) \in b.visited THEN b
  ELSE LET b1 == [b EXCEPT !.visited = @ \cup {Identity(obj, path)}]
       IN IF Len(b1.embed.fields) >= MAX_FIELDS THEN b1
          ELSE LET es == EntriesOf(obj)
                   isPriority(i) == es[i].k \in Range(priorityFields)
                   all == [i \in 1..Len(es) |-> i]
                   b2 == WalkKeys(b1, es, SelectSeq(all, LAMBDA i : ~isPriority(i)), TRUE,
                                  prefix, depth, path, hostTz)
               IN WalkKeys(b2, es, SelectSeq(all, isPriority), FALSE,
                           prefix, depth, path, hostTz)

processObjectFields(b, obj, prefix, depth, path, hostTz) ==
  IF b.threw THEN b
  ELSE IF depth > MAX_DEPTH THEN b
  ELSE IF Identity(obj, path) \in b.visited THEN b
  ELSE LET b1 == [b EXCEPT !.visited = @ \cup {Identity(obj, path)}]
       IN IF Len(b1.embed.fields) >= MAX_FIELDS THEN b1
          ELSE LET es == EntriesOf(obj)
                   isPriority(i) == es[i].k \in Range(priorityFields)
                   all == [i \in 1..Len(es) |-> i]
                   \* the priority keys, in key order, with no look at the field count
                   b2 == WalkKeys(b1, es, SelectSeq(all, isPriority), FALSE,
                                  prefix, depth, path, hostTz)
                   \* the regular keys, each only while the count is below MAX_FIELDS
               IN WalkKeys(b2, es, SelectSeq(all, LAMBDA i : ~isPriority(i)), TRUE,
                           prefix, depth, path, hostTz)

\* forEach over the keys at the positions `todo`; an exception ends the loop
WalkKeys(b, es, todo, counted, prefix, depth, path, hostTz) ==
  IF b.threw \/ Len(todo) = 0 THEN b
  ELSE LET i == Head(todo)
           b1 == IF counted /\ Len(b.embed.fields) >= MAX_FIELDS THEN b
                 ELSE processField(b, es[i], prefix, depth, Append(path, i), hostTz)
       IN WalkKeys(b1, es, Tail(todo), counted, prefix, depth, path, hostTz)

\* `entry` is the key and obj[key]; `path` is the identity of obj[key]
processField(b, entry, prefix, depth, path, hostTz) ==
  LET key == entry.k
      value == entry.v
      fieldName == IF Len(prefix) > 0 THEN prefix \o <<".">> \o key ELSE key
  IN IF IsNullish(value) THEN b
     \* an enclosing object is in the visited set, or lies beyond MAX_DEPTH
     ELSE IF value.t = "cycle" THEN b
     ELSE IF value.t = "obj"
     THEN IF isSimpleObject(value)
          THEN Bind(formatSimpleObject(value, hostTz),
                    LAMBDA formattedValue :
                      IF Len(formattedValue) > 0
                      THEN addFields(b, formatEmbedFieldName(Str(formatFieldName(fieldName))),
                                     formatEmbedFieldValue(Str(formattedValue)),
                                     shouldBeInline(key, value))
                      ELSE b)
          ELSE processObjectFields(b, value, fieldName, depth + 1, path, hostTz)
     ELSE IF value.t = "arr"
     THEN Bind(formatArray(value, hostTz),
               LAMBDA formattedArray :
                 IF Len(formattedArray) > 0
                 THEN addFields(b, formatEmbedFieldName(Str(formatFieldName(fieldName))),
                                formatEmbedFieldValue(Str(formattedArray)), FALSE)
                 ELSE b)
     ELSE addFields(b, formatEmbedFieldName(Str(formatFieldName(fieldName))),
                    formatEmbedFieldValue(Str(formatPrimitiveValue(key, value, hostTz))),
                    shouldBeInline(key, value))

\* The outcome of a call: it returned `value` (a card, or Null) or it threw.
Returned(value) == [threw |-> FALSE, value |-> value]
Thrown == [threw |-> TRUE]

\* what a call hands back once the builder is done with
Outcome(b) == IF b.threw THEN Thrown ELSE Returned(b.embed)

\* `new EmbedBuilder().setTitle(...)...setFooter(...)` for an object event
NewGenericEmbed(event) ==
  Bind(Get(event, K_eventType), LAMBDA eventType :
    Builder(NewEmbed(formatEmbedTitle(Str(S_WebhookEvent \o (IF Truthy(eventType)
                                                             THEN ToStr(eventType)
                                                             ELSE S_Unknown))),
                     GenericColor, S_WebhookNotification)))

\* the object that event.payload is: a back reference there is the event itself
WalkRoot(event) ==
  Bind(Get(event, K_payload), LAMBDA payload : IF payload.t = "cycle" THEN event ELSE payload)

\* the end of the try block around the walk, and its catch block: the fields added
\* before the exception stay on the card
AfterWalk(walked) ==
  IF ~walked.threw THEN Returned(walked.embed)
  ELSE Outcome(addFields([walked EXCEPT !.threw = FALSE],
                         formatEmbedFieldName(Str(S_Payload)),
                         formatEmbedFieldValue(Str(S_ErrorProcessing)),
                         FALSE))

buildWebSocketEventEmbed(event, hostTz) ==
  IF ~Truthy(event) \/ TypeOf(event) # "object"
  THEN Outcome(addFields(Builder(NewEmbed(formatEmbedTitle(Str(S_WebhookEventInvalid)),
                                          GenericColor, S_WebhookNotification)),
                         formatEmbedFieldName(Str(S_Error)),
                         formatEmbedFieldValue(Str(S_InvalidOrMissing)), FALSE))
  ELSE IF Truthy(Get(event, K_payload)) /\ TypeOf(Get(event, K_payload)) = "object"
  THEN AfterWalk(processObjectFields(NewGenericEmbed(event), WalkRoot(event), <<>>, 0, <<>>,
                                     hostTz))
  ELSE Returned(NewGenericEmbed(event).embed)


(***************************************************************************)
(* src/types/teamcity.ts: the guards                                       *)
(***************************************************************************)
K_buildTypeId == <<"b", "u", "i", "l", "d", "T", "y", "p", "e", "I", "d">>
K_webUrl == <<"w", "e", "b", "U", "r", "l">>
K_description == <<"d", "e", "s", "c", "r", "i", "p", "t", "i", "o", "n">>
K_projectName == <<"p", "r", "o", "j", "e", "c", "t", "N", "a", "m", "e">>
K_projectId == <<"p", "r", "o", "j", "e", "c", "t", "I", "d">>
K_queuedDate == <<"q", "u", "e", "u", "e", "d", "D", "a", "t", "e">>
K_startDate == <<"s", "t", "a", "r", "t", "D", "a", "t", "e">>
K_finishDate == <<"f", "i", "n", "i", "s", "h", "D", "a", "t", "e">>
K_finishOnAgentDate ==
  <<"f", "i", "n", "i", "s", "h", "O", "n", "A", "g", "e", "n", "t", "D", "a", "t", "e">>
K_canceledInfo == <<"c", "a", "n", "c", "e", "l", "e", "d", "I", "n", "f", "o">>
K_triggered == <<"t", "r", "i", "g", "g", "e", "r", "e", "d">>
K_lastChanges == <<"l", "a", "s", "t", "C", "h", "a", "n", "g", "e", "s">>
K_changes == <<"c", "h", "a", "n", "g", "e", "s">>
K_revisions == <<"r", "e", "v", "i", "s", "i", "o", "n", "s">>
K_artifacts == <<"a", "r", "t", "i", "f", "a", "c", "t", "s">>
K_relatedIssues == <<"r", "e", "l", "a", "t", "e", "d", "I", "s", "s", "u", "e", "s">>
K_properties == <<"p", "r", "o", "p", "e", "r", "t", "i", "e", "s">>
K_statistics == <<"s", "t", "a", "t", "i", "s", "t", "i", "c", "s">>
K_vcsLabels == <<"v", "c", "s", "L", "a", "b", "e", "l", "s">>
K_customization == <<"c", "u", "s", "t", "o", "m", "i", "z", "a", "t", "i", "o", "n">>
K_percentageComplete ==
  <<"p", "e", "r", "c", "e", "n", "t", "a", "g", "e", "C", "o", "m", "p", "l", "e", "t", "e">>
K_elapsedSeconds == <<"e", "l", "a", "p", "s", "e", "d", "S", "e", "c", "o", "n", "d", "s">>
K_estimatedTotalSeconds ==
  <<"e", "s", "t", "i", "m", "a", "t", "e", "d", "T", "o", "t", "a", "l", "S", "e", "c", "o",
    "n", "d", "s">>
K_currentStageText ==
  <<"c", "u", "r", "r", "e", "n", "t", "S", "t", "a", "g", "e", "T", "e", "x", "t">>
K_text == <<"t", "e", "x", "t">>
K_user == <<"u", "s", "e", "r">>
K_timestamp == <<"t", "i", "m", "e", "s", "t", "a", "m", "p">>
K_change == <<"c", "h", "a", "n", "g", "e">>
K_runningInfo == <<"r", "u", "n", "n", "i", "n", "g", "-", "i", "n", "f", "o">>
S_BUILD_STARTED == <<"B", "U", "I", "L", "D", "_", "S", "T", "A", "R", "T", "E", "D">>
S_BUILD_FINISHED == <<"B", "U", "I", "L", "D", "_", "F", "I", "N", "I", "S", "H", "E", "D">>
S_BUILD_INTERRUPTED ==
  <<"B", "U", "I", "L", "D", "_", "I", "N", "T", "E", "R", "R", "U", "P", "T", "E", "D">>
S_BUILD_ == <<"B", "U", "I", "L", "D", "_">>
S_SUCCESS == <<"S", "U", "C", "C", "E", "S", "S">>

isTeamCityWebhookEvent(obj) ==
  /\ Truthy(obj)
  /\ TypeOf(obj) = "object"
  /\ TypeOf(Get(obj, K_eventType)) = "string"
  /\ LET eventType == Get(obj, K_eventType).s
     IN \/ eventType = S_BUILD_STARTED
        \/ eventType = S_BUILD_FINISHED
        \/ eventType = S_BUILD_INTERRUPTED
        \/ StartsWith(eventType, S_BUILD_)

\* the value of the && chain: its first falsy operand, or its last operand
isValidTeamCityWebhookEvent(obj) ==
  IF ~Truthy(obj) THEN obj
  ELSE IF TypeOf(obj) # "object" \/ TypeOf(Get(obj, K_eventType)) # "string" THEN Bool(FALSE)
  ELSE Bind(Get(obj, K_payload), LAMBDA payload :
         IF ~Truthy(payload) THEN payload
         ELSE IF \/ TypeOf(payload) # "object"
                 \/ TypeOf(Get(payload, K_id)) # "number"
                 \/ TypeOf(Get(payload, K_buildTypeId)) # "string"
                 \/ TypeOf(Get(payload, K_number)) # "string"
                 \/ TypeOf(Get(payload, K_status)) # "string"
                 \/ TypeOf(Get(payload, K_state)) # "string"
                 \/ TypeOf(Get(payload, K_webUrl)) # "string"
         THEN Bool(FALSE)
         ELSE Bind(Get(payload, K_buildType), LAMBDA buildType :
                IF ~Truthy(buildType) THEN buildType
                ELSE IF TypeOf(Get(buildType, K_name)) # "string" THEN Bool(FALSE)
                ELSE Bool(TypeOf(Get(buildType, K_projectName)) = "string")))

\* the guards read a property of the payload, whatever it holds
hasRunningInfo(payload) == Get(payload, K_runningInfo).t # "undef"

hasCanceledInfo(payload) == Get(payload, K_canceledInfo).t # "undef"

\* x > 0 for a JS number x
GreaterThanZero(x) == ~x.nan /\ x.n > 0

\* "throw" when lastChanges is null: the read of null.count is a TypeError
hasLastChanges(payload) ==
  LET lastChanges == Get(payload, K_lastChanges)
  IN IF lastChanges.t = "undef" THEN "no"
     ELSE IF lastChanges.t = "null" THEN "throw"
     ELSE IF GreaterThanZero(ToNumber(Get(lastChanges, K_count))) THEN "yes"
     ELSE "no"

\* hasAgent that takes the agent for present
hasAgent_Always(payload) == TRUE

hasAgent(payload) == Get(payload, K_agent).t # "undef"

(***************************************************************************)
(* src/utils/validation.ts                                                 *)
(***************************************************************************)
S_EventNull ==
  <<"E", "v", "e", "n", "t", " ", "i", "s", " ", "n", "u", "l", "l", " ", "o", "r", " ", "u",
    "n", "d", "e", "f", "i", "n", "e", "d">>
S_EventObject ==
  <<"E", "v", "e", "n", "t", " ", "m", "u", "s", "t", " ", "b", "e", " ", "a", "n", " ", "o",
    "b", "j", "e", "c", "t">>
S_NeedEventType ==
  <<"E", "v", "e", "n", "t", " ", "m", "u", "s", "t", " ", "h", "a", "v", "e", " ", "a", "n",
    " ", "e", "v", "e", "n", "t", "T", "y", "p", "e">>
S_EventTypeString ==
  <<"e", "v", "e", "n", "t", "T", "y", "p", "e", " ", "m", "u", "s", "t", " ", "b", "e", " ",
    "a", " ", "s", "t", "r", "i", "n", "g">>
S_NeedPayload ==
  <<"E", "v", "e", "n", "t", " ", "m", "u", "s", "t", " ", "h", "a", "v", "e", " ", "a", " ",
    "p", "a", "y", "l", "o", "a", "d">>
S_PayloadObject ==
  <<"P", "a", "y", "l", "o", "a", "d", " ", "m", "u", "s", "t", " ", "b", "e", " ", "a", "n",
    " ", "o", "b", "j", "e", "c", "t">>
S_MissingField ==
  <<"M", "i", "s", "s", "i", "n", "g", " ", "r", "e", "q", "u", "i", "r", "e", "d", " ", "f",
    "i", "e", "l", "d", ":", " ">>
S_BuildTypeObject ==
  <<"b", "u", "i", "l", "d", "T", "y", "p", "e", " ", "m", "u", "s", "t", " ", "b", "e", " ",
    "a", "n", " ", "o", "b", "j", "e", "c", "t">>
S_MissingBuildTypeField ==
  <<"M", "i", "s", "s", "i", "n", "g", " ", "r", "e", "q", "u", "i", "r", "e", "d", " ", "b",
    "u", "i", "l", "d", "T", "y", "p", "e", " ", "f", "i", "e", "l", "d", ":", " ">>
S_IdPositive ==
  <<"i", "d", " ", "s", "h", "o", "u", "l", "d", " ", "b", "e", " ", "a", " ", "p", "o", "s",
    "i", "t", "i", "v", "e", " ", "n", "u", "m", "b", "e", "r">>
S_WebUrlString ==
  <<"w", "e", "b", "U", "r", "l", " ", "s", "h", "o", "u", "l", "d", " ", "b", "e", " ", "a",
    " ", "s", "t", "r", "i", "n", "g">>
S_UNKNOWN == <<"U", "N", "K", "N", "O", "W", "N">>
S_unknown == <<"u", "n", "k", "n", "o", "w", "n">>
S_zero == <<"0">>
S_UnknownBuild == <<"U", "n", "k", "n", "o", "w", "n", " ", "B", "u", "i", "l", "d">>
S_UnknownProject == <<"U", "n", "k", "n", "o", "w", "n", " ", "P", "r", "o", "j", "e", "c", "t">>

\* const result: ValidationResult = { isValid: true, errors: [], warnings: [] }
Result == [isValid |-> TRUE, errors |-> <<>>, warnings |-> <<>>]

\* result.isValid = false; result.errors.push(message)
Fail(result, message) == [result EXCEPT !.isValid = FALSE, !.errors = Append(@, message)]

\* result.warnings.push(message)
Warn(result, message) == [result EXCEPT !.warnings = Append(@, message)]

RECURSIVE FailEach(_, _)
\* Fail for each of the messages, in order
FailEach(result, messages) ==
  IF Len(messages) = 0 THEN result
  ELSE FailEach(Fail(result, Head(messages)), Tail(messages))

validateWebhookEvent(event) ==
  IF ~Truthy(event) THEN Fail(Result, S_EventNull)
  ELSE IF TypeOf(event) # "object" THEN Fail(Result, S_EventObject)
  ELSE Bind(Get(event, K_eventType), LAMBDA eventType :
       Bind(Get(event, K_payload), LAMBDA payload :
       Bind(IF ~Truthy(eventType) THEN Fail(Result, S_NeedEventType)
            ELSE IF TypeOf(eventType) # "string" THEN Fail(Result, S_EventTypeString)
            ELSE Result, LAMBDA typed :
         IF ~Truthy(payload) THEN Fail(typed, S_NeedPayload)
         ELSE IF TypeOf(payload) # "object" THEN Fail(typed, S_PayloadObject)
         ELSE typed)))

requiredFields == <<K_id, K_buildTypeId, K_number, K_status, K_state, K_webUrl, K_buildType>>
requiredBuildTypeFields == <<K_name, K_projectName>>

\* validateTeamCityEvent that stops at the first missing required field
validateTeamCityEvent_ShortCircuit(event) ==
  Bind(validateWebhookEvent(event), LAMBDA result :
    IF ~result.isValid THEN result
    ELSE Bind(SelectSeq(requiredFields, LAMBDA f : IsNullish(Get(Get(event, K_payload), f))),
              LAMBDA missing : IF Len(missing) = 0 THEN result
                               ELSE Fail(result, S_MissingField \o missing[1])))

\* the errors of the block `if (payload.buildType) { ... }`
BuildTypeErrors(buildType) ==
  IF ~Truthy(buildType) THEN <<>>
  ELSE IF TypeOf(buildType) # "object" THEN <<S_BuildTypeObject>>
  ELSE Bind(SelectSeq(requiredBuildTypeFields, LAMBDA f : ~Truthy(Get(buildType, f))),
            LAMBDA missing : [i \in 1..Len(missing) |-> S_MissingBuildTypeField \o missing[i]])

validateTeamCityEvent(event) ==
  Bind(validateWebhookEvent(event), LAMBDA result :
    IF ~result.isValid THEN result
    ELSE Bind(Get(event, K_payload), LAMBDA payload :
         Bind(Get(payload, K_id), LAMBDA id :
         Bind(Get(payload, K_webUrl), LAMBDA webUrl :
         Bind(SelectSeq(requiredFields, LAMBDA f : IsNullish(Get(payload, f))), LAMBDA missing :
         Bind(FailEach(result, [i \in 1..Len(missing) |-> S_MissingField \o missing[i]]),
              LAMBDA r1 :
         Bind(FailEach(r1, BuildTypeErrors(Get(payload, K_buildType))), LAMBDA r2 :
         Bind(IF id.t # "undef" /\ (TypeOf(id) # "number" \/ id.n <= 0)
              THEN Warn(r2, S_IdPositive) ELSE r2, LAMBDA r3 :
           IF Truthy(webUrl) /\ TypeOf(webUrl) # "string" THEN Warn(r3, S_WebUrlString)
           ELSE r3))))))))

\* ...(source[key] && { key: source[key] })
SpreadIfTruthy(source, keys) ==
  LET present == SelectSeq(keys, LAMBDA k : Truthy(OptGet(source, k)))
  IN [i \in 1..Len(present) |-> [k |-> present[i], v |-> OptGet(source, present[i])]]

copiedFields ==
  <<K_queuedDate, K_startDate, K_finishDate, K_finishOnAgentDate, K_runningInfo, K_canceledInfo,
    K_triggered, K_lastChanges, K_changes, K_revisions, K_agent, K_artifacts, K_relatedIssues,
    K_properties, K_statistics, K_vcsLabels, K_customization>>

\* the outcome of sanitizeTeamCityEvent: the read event.eventType of a null or
\* undefined event throws
sanitizeTeamCityEvent(event) ==
  IF IsNullish(event) THEN Thrown
  ELSE LET payload == Get(event, K_payload)
           buildType == OptGet(payload, K_buildType)
           field(src, k, default) == [k |-> k, v |-> OrElse(OptGet(src, k), default)]
       IN Returned(Obj(<<
            [k |-> K_eventType, v |-> OrElse(Get(event, K_eventType), Str(S_UNKNOWN))],
            [k |-> K_payload, v |-> Obj(<<
               field(payload, K_id, Num(0)),
               field(payload, K_buildTypeId, Str(S_unknown)),
               field(payload, K_number, Str(S_zero)),
               field(payload, K_status, Str(S_UNKNOWN)),
               field(payload, K_state, Str(S_unknown)),
               field(payload, K_href, Str(<<>>)),
               field(payload, K_webUrl, Str(<<>>)),
               [k |-> K_statusText,
                v |-> OrElse(OptGet(payload, K_statusText),
                             OrElse(OptGet(payload, K_status), Str(S_Unknown)))],
               [k |-> K_buildType, v |-> Obj(<<
                  field(buildType, K_id, Str(S_unknown)),
                  field(buildType, K_name, Str(S_UnknownBuild)),
                  field(buildType, K_description, Str(<<>>)),
                  field(buildType, K_projectName, Str(S_UnknownProject)),
                  field(buildType, K_projectId, Str(S_unknown)),
                  field(buildType, K_href, Str(<<>>)),
                  field(buildType, K_webUrl, Str(<<>>))>>)]>>
               \o SpreadIfTruthy(payload, copiedFields))]>>))


(***************************************************************************)
(* src/teamcityEmbeds.ts                                                   *)
(***************************************************************************)
COLOR_STARTED == 3447003
COLOR_SUCCESS == 2600544
COLOR_FAILURE == 15158332
COLOR_INTERRUPTED == 15965202

\* the rocket is two UTF-16 units, the warning sign is one and its variation selector another
S_TitleStarted ==
  <<"[rocket-hi]", "[rocket-lo]", " ", "B", "u", "i", "l", "d", " ", "S", "t", "a", "r", "t",
    "e", "d", ":", " ">>
S_TitleSuccess ==
  <<"[check]", " ", "B", "u", "i", "l", "d", " ", "F", "i", "n", "i", "s", "h", "e", "d", ":",
    " ">>
S_TitleFailure ==
  <<"[cross]", " ", "B", "u", "i", "l", "d", " ", "F", "i", "n", "i", "s", "h", "e", "d", ":",
    " ">>
S_TitleInterrupted ==
  <<"[warning]", "[vs16]", " ", "B", "u", "i", "l", "d", " ", "I", "n", "t", "e", "r", "r", "u",
    "p", "t", "e", "d", ":", " ">>
S_TeamCityFooter ==
  <<"T", "e", "a", "m", "C", "i", "t", "y", " ", "B", "u", "i", "l", "d", " ", "N", "o", "t",
    "i", "f", "i", "c", "a", "t", "i", "o", "n">>
S_Project == <<"P", "r", "o", "j", "e", "c", "t">>
S_BuildType == <<"B", "u", "i", "l", "d", " ", "T", "y", "p", "e">>
S_BuildNumber == <<"B", "u", "i", "l", "d", " ", "N", "u", "m", "b", "e", "r">>
S_Status == <<"S", "t", "a", "t", "u", "s">>
S_FinalStatus == <<"F", "i", "n", "a", "l", " ", "S", "t", "a", "t", "u", "s">>
S_Agent == <<"A", "g", "e", "n", "t">>
S_Progress == <<"P", "r", "o", "g", "r", "e", "s", "s">>
S_EstTimeRemaining ==
  <<"E", "s", "t", ".", " ", "T", "i", "m", "e", " ", "R", "e", "m", "a", "i", "n", "i", "n",
    "g">>
S_CurrentStage == <<"C", "u", "r", "r", "e", "n", "t", " ", "S", "t", "a", "g", "e">>
S_StartedAt == <<"S", "t", "a", "r", "t", "e", "d", " ", "A", "t">>
S_TeamCityLink == <<"T", "e", "a", "m", "C", "i", "t", "y", " ", "L", "i", "n", "k">>
S_BuildDuration == <<"B", "u", "i", "l", "d", " ", "D", "u", "r", "a", "t", "i", "o", "n">>
S_FinishedAt == <<"F", "i", "n", "i", "s", "h", "e", "d", " ", "A", "t">>
S_LastChange == <<"L", "a", "s", "t", " ", "C", "h", "a", "n", "g", "e">>
S_Changes == <<"C", "h", "a", "n", "g", "e", "s">>
S_CancellationReason ==
  <<"C", "a", "n", "c", "e", "l", "l", "a", "t", "i", "o", "n", " ", "R", "e", "a", "s", "o",
    "n">>
S_CanceledBy == <<"C", "a", "n", "c", "e", "l", "e", "d", " ", "B", "y">>
S_CanceledAt == <<"C", "a", "n", "c", "e", "l", "e", "d", " ", "A", "t">>
S_ElapsedTime == <<"E", "l", "a", "p", "s", "e", "d", " ", "T", "i", "m", "e">>
S_ViewBuild_open == <<"[", "V", "i", "e", "w", " ", "B", "u", "i", "l", "d", "]", "(">>
S_changesLatestBy ==
  <<" ", "c", "h", "a", "n", "g", "e", "s", ",", " ", "l", "a", "t", "e", "s", "t", " ", "b",
    "y", " ">>
S_spaceParen == <<" ", "(">>

safeFormatTimestamp(timestamp, hostTz) ==
  Bind(formatTeamCityTimestamp(timestamp, hostTz),
       LAMBDA formatted : IF formatted # S_InvalidDate THEN Str(formatted) ELSE Null)

\* text && text.trim(): "throw" for a truthy text that is no string (it has no trim)
TrimmedTruthy(text) ==
  IF ~Truthy(text) THEN "no"
  ELSE IF ~IsString(text) THEN "throw"
  ELSE IF Len(Trim(text.s)) > 0 THEN "yes"
  ELSE "no"

\* the fields Project, Build Type, Build Number and the status field named statusName
HeadFields(b, payload, buildType, statusName, status) ==
  LET b1 == addFields(b, formatEmbedFieldName(Str(S_Project)),
                      formatEmbedFieldValue(Get(buildType, K_projectName)), TRUE)
      b2 == addFields(b1, formatEmbedFieldName(Str(S_BuildType)),
                      formatEmbedFieldValue(Get(buildType, K_name)), TRUE)
      b3 == addFields(b2, formatEmbedFieldName(Str(S_BuildNumber)),
                      formatEmbedFieldValue(Str(<<"#">> \o ToStr(Get(payload, K_number)))), TRUE)
  IN addFields(b3, formatEmbedFieldName(Str(statusName)), formatEmbedFieldValue(status), TRUE)

\* if (hasAgent(payload)) { ... payload.agent.name ... }
AgentField(b, payload) ==
  IF b.threw \/ ~hasAgent(payload) THEN b
  ELSE LET agent == Get(payload, K_agent)
       IN IF IsNullish(agent) THEN Throw(b)
          ELSE addFields(b, formatEmbedFieldName(Str(S_Agent)),
                         formatEmbedFieldValue(Get(agent, K_name)), TRUE)

\* if (runningInfo.currentStageText && runningInfo.currentStageText.trim()) { ... }
CurrentStageField(b, payload) ==
  IF b.threw \/ ~hasRunningInfo(payload) THEN b
  ELSE LET runningInfo == Get(payload, K_runningInfo)
       IN IF IsNullish(runningInfo) THEN Throw(b)
          ELSE LET currentStageText == Get(runningInfo, K_currentStageText)
                   shown == TrimmedTruthy(currentStageText)
               IN IF shown = "throw" THEN Throw(b)
                  ELSE IF shown = "yes"
                  THEN addFields(b, formatEmbedFieldName(Str(S_CurrentStage)),
                                 formatEmbedFieldValue(currentStageText), FALSE)
                  ELSE b

\* const buildUrl = formatUrl(payload.webUrl); if (buildUrl) { ... }
LinkField(b, payload) ==
  IF b.threw THEN b
  ELSE Bind(formatUrl(Get(payload, K_webUrl)),
            LAMBDA buildUrl :
              IF Len(buildUrl) > 0
              THEN addFields(b, formatEmbedFieldName(Str(S_TeamCityLink)),
                             formatEmbedFieldValue(
                               Str(S_ViewBuild_open \o buildUrl \o S_closeParen)),
                             FALSE)
              ELSE b)

\* a field whose value is the formatted timestamp, left out when there is none
TimestampField(b, name, timestamp, hostTz) ==
  IF b.threw \/ ~Truthy(timestamp) THEN b
  ELSE Bind(safeFormatTimestamp(timestamp, hostTz),
            LAMBDA formatted :
              IF Truthy(formatted)
              THEN addFields(b, formatEmbedFieldName(Str(name)), formatEmbedFieldValue(formatted),
                             TRUE)
              ELSE b)

\* if (hasRunningInfo(payload)) { ... Progress, Est. Time Remaining, Current Stage ... }
RunningInfoFields(b, payload) ==
  IF b.threw \/ ~hasRunningInfo(payload) THEN b
  ELSE LET runningInfo == Get(payload, K_runningInfo)
       IN IF IsNullish(runningInfo) THEN Throw(b)
          ELSE LET p == addFields(b, formatEmbedFieldName(Str(S_Progress)),
                          formatEmbedFieldValue(Str(
                            ToStr(Get(runningInfo, K_percentageComplete))
                            \o <<"%">>)), TRUE)
                   estimatedCompletion ==
                     formatEstimatedCompletion(
                       Get(runningInfo, K_elapsedSeconds),
                       Get(runningInfo, K_estimatedTotalSeconds))
                   q == addFields(p, formatEmbedFieldName(Str(S_EstTimeRemaining)),
                          formatEmbedFieldValue(Str(estimatedCompletion)), TRUE)
               IN CurrentStageField(q, payload)

buildStartedEmbed(event, hostTz) ==
  IF IsNullish(event) \/ IsNullish(Get(event, K_payload))
     \/ IsNullish(Get(Get(event, K_payload), K_buildType))
  THEN Thrown
  ELSE LET payload == Get(event, K_payload)
           buildType == Get(payload, K_buildType)
           b0 == Builder(NewEmbed(
                   formatEmbedTitle(Str(S_TitleStarted \o ToStr(Get(buildType, K_name)))),
                   COLOR_STARTED, S_TeamCityFooter))
           b1 == HeadFields(b0, payload, buildType, S_Status,
                            OrElse(Get(payload, K_statusText), Get(payload, K_state)))
           b2 == AgentField(b1, payload)
           b3 == RunningInfoFields(b2, payload)
           b4 == TimestampField(b3, S_StartedAt, Get(payload, K_startDate), hostTz)
       IN Outcome(LinkField(b4, payload))

\* x === 1 and x > 1 for the value of lastChanges.count
IsOne(v) == v.t = "num" /\ v.n = 1
GreaterThanOne(x) == ~x.nan /\ x.n > 1

\* if (hasLastChanges(payload)) { ... }
LastChangesField(b, payload, hostTz) ==
  IF b.threw THEN b
  ELSE IF hasLastChanges(payload) = "throw" THEN Throw(b)
  ELSE IF hasLastChanges(payload) = "no" THEN b
  ELSE    LET lastChanges == Get(payload, K_lastChanges)
                   changeCount == Get(lastChanges, K_count)
                   list == Get(lastChanges, K_change)
                   \* lastChanges.change[0]
                   first == IF IsNullish(list) THEN Undef ELSE Get(list, <<"0">>)
               IN IF ~IsOne(changeCount) /\ ~GreaterThanOne(ToNumber(changeCount)) THEN b
                  ELSE IF IsNullish(list) \/ IsNullish(first) THEN Throw(b)
                  ELSE IF IsOne(changeCount)
                  THEN Bind(safeFormatTimestamp(Get(first, K_date), hostTz),
                            LAMBDA changeDate :
                              LET changeInfo ==
                                    IF Truthy(changeDate)
                                    THEN Str(ToStr(Get(first, K_username)) \o S_spaceParen
                                             \o changeDate.s \o S_closeParen)
                                    ELSE Get(first, K_username)
                              IN addFields(b, formatEmbedFieldName(Str(S_LastChange)),
                                           formatEmbedFieldValue(changeInfo), FALSE))
                  ELSE addFields(b, formatEmbedFieldName(Str(S_Changes)),
                                 formatEmbedFieldValue(Str(
                                   ToStr(changeCount) \o S_changesLatestBy
                                   \o ToStr(Get(first, K_username)))), FALSE)

\* if (payload.startDate && payload.finishDate) { ... Build Duration ... }
DurationField(b, startDate, finishDate, hostTz) ==
  IF b.threw \/ ~Truthy(startDate) \/ ~Truthy(finishDate) THEN b
  ELSE Bind(calculateDuration(startDate, finishDate, hostTz),
            LAMBDA duration :
              IF Truthy(duration)
              THEN addFields(b, formatEmbedFieldName(Str(S_BuildDuration)),
                             formatEmbedFieldValue(duration), TRUE)
              ELSE b)

buildFinishedEmbed(event, hostTz) ==
  IF IsNullish(event) \/ IsNullish(Get(event, K_payload))
     \/ IsNullish(Get(Get(event, K_payload), K_buildType))
  THEN Thrown
  ELSE LET payload == Get(event, K_payload)
           buildType == Get(payload, K_buildType)
           isSuccess == Get(payload, K_status) = Str(S_SUCCESS)
           color == IF isSuccess THEN COLOR_SUCCESS ELSE COLOR_FAILURE
           icon == IF isSuccess THEN S_TitleSuccess ELSE S_TitleFailure
           startDate == Get(payload, K_startDate)
           finishDate == Get(payload, K_finishDate)
           b0 == Builder(NewEmbed(formatEmbedTitle(Str(icon \o ToStr(Get(buildType, K_name)))),
                                  color, S_TeamCityFooter))
           b1 == HeadFields(b0, payload, buildType, S_FinalStatus,
                            OrElse(Get(payload, K_statusText), Get(payload, K_status)))
           b2 == AgentField(b1, payload)
           b3 == DurationField(b2, startDate, finishDate, hostTz)
           b4 == TimestampField(b3, S_FinishedAt, finishDate, hostTz)
           b5 == LastChangesField(b4, payload, hostTz)
       IN Outcome(LinkField(b5, payload))

\* if (hasCanceledInfo(payload)) { ... }
CanceledFields(b, payload, hostTz) ==
  IF b.threw \/ ~hasCanceledInfo(payload) THEN b
  ELSE LET canceledInfo == Get(payload, K_canceledInfo)
       IN IF IsNullish(canceledInfo) THEN Throw(b)
          ELSE LET text == Get(canceledInfo, K_text)
                   shown == TrimmedTruthy(text)
                   user == Get(canceledInfo, K_user)
               IN Bind(IF shown = "throw" THEN Throw(b)
                       ELSE IF shown = "yes"
                       THEN addFields(b, formatEmbedFieldName(Str(S_CancellationReason)),
                                      formatEmbedFieldValue(Str(Trim(text.s))), FALSE)
                       ELSE b, LAMBDA b1 :
                  Bind(IF b1.threw THEN b1
                       ELSE IF IsNullish(user) THEN Throw(b1)
                       ELSE addFields(b1, formatEmbedFieldName(Str(S_CanceledBy)),
                                      formatEmbedFieldValue(Get(user, K_username)), TRUE),
                       LAMBDA b2 :
                  IF b2.threw THEN b2
                  ELSE Bind(safeFormatTimestamp(Get(canceledInfo, K_timestamp), hostTz),
                            LAMBDA cancelTime :
                              IF Truthy(cancelTime)
                              THEN addFields(b2, formatEmbedFieldName(Str(S_CanceledAt)),
                                             formatEmbedFieldValue(cancelTime), TRUE)
                              ELSE b2)))

\* if (payload.startDate) { ... elapsedTime ... }
ElapsedTimeField(b, payload, hostTz) ==
  IF b.threw \/ ~Truthy(Get(payload, K_startDate)) THEN b
  ELSE IF hasRunningInfo(payload) /\ IsNullish(Get(payload, K_runningInfo)) THEN Throw(b)
  ELSE Bind(IF hasRunningInfo(payload)
            THEN Str(formatElapsedTime(Get(Get(payload, K_runningInfo), K_elapsedSeconds)))
            ELSE IF hasCanceledInfo(payload)
            THEN calculateDuration(Get(payload, K_startDate),
                                   Get(Get(payload, K_canceledInfo), K_timestamp), hostTz)
            ELSE Null,
            LAMBDA elapsedTime :
              IF Truthy(elapsedTime)
              THEN addFields(b, formatEmbedFieldName(Str(S_ElapsedTime)),
                             formatEmbedFieldValue(elapsedTime), TRUE)
              ELSE b)

\* if (payload.startDate) { ... Started At ... }: the start time goes through
\* formatTeamCityTimestamp with no guard
StartedAtField(b, startDate, hostTz) ==
  IF b.threw \/ ~Truthy(startDate) THEN b
  ELSE addFields(b, formatEmbedFieldName(Str(S_StartedAt)),
                 formatEmbedFieldValue(Str(formatTeamCityTimestamp(startDate, hostTz))), TRUE)

buildInterruptedEmbed(event, hostTz) ==
  IF IsNullish(event) \/ IsNullish(Get(event, K_payload))
     \/ IsNullish(Get(Get(event, K_payload), K_buildType))
  THEN Thrown
  ELSE LET payload == Get(event, K_payload)
           buildType == Get(payload, K_buildType)
           startDate == Get(payload, K_startDate)
           b0 == Builder(NewEmbed(
                   formatEmbedTitle(Str(S_TitleInterrupted \o ToStr(Get(buildType, K_name)))),
                   COLOR_INTERRUPTED, S_TeamCityFooter))
           b1 == HeadFields(b0, payload, buildType, S_Status,
                            OrElse(Get(payload, K_statusText), Get(payload, K_status)))
           b2 == AgentField(b1, payload)
           b3 == CanceledFields(b2, payload, hostTz)
           b4 == ElapsedTimeField(b3, payload, hostTz)
           b5 == CurrentStageField(b4, payload)
           b6 == StartedAtField(b5, startDate, hostTz)
       IN Outcome(LinkField(b6, payload))

\* the try block with every other BUILD_ kind routed to the BUILD_STARTED formatter
TryCreateTeamCityEmbed_AnyBuildKind(event, hostTz) ==
  IF ~Truthy(event) \/ ~Truthy(Get(event, K_eventType)) \/ ~Truthy(Get(event, K_payload))
  THEN Returned(Null)
  ELSE LET payload == Get(event, K_payload)
           buildType == Get(payload, K_buildType)
           eventType == Get(event, K_eventType)
       IN IF ~Truthy(buildType) \/ ~Truthy(Get(buildType, K_name))
             \/ ~Truthy(Get(buildType, K_projectName))
          THEN Returned(Null)
          ELSE IF eventType = Str(S_BUILD_FINISHED) THEN buildFinishedEmbed(event, hostTz)
          ELSE IF eventType = Str(S_BUILD_INTERRUPTED) THEN buildInterruptedEmbed(event, hostTz)
          ELSE IF isTeamCityWebhookEvent(event) THEN buildStartedEmbed(event, hostTz)
          ELSE Returned(Null)

\* the body of createTeamCityEmbed's try block
TryCreateTeamCityEmbed(event, hostTz) ==
  IF ~Truthy(event) \/ ~Truthy(Get(event, K_eventType)) \/ ~Truthy(Get(event, K_payload))
  THEN Returned(Null)
  ELSE LET payload == Get(event, K_payload)
           buildType == Get(payload, K_buildType)
           eventType == Get(event, K_eventType)
       IN IF ~Truthy(buildType) \/ ~Truthy(Get(buildType, K_name))
             \/ ~Truthy(Get(buildType, K_projectName))
          THEN Returned(Null)
          ELSE IF eventType = Str(S_BUILD_STARTED) THEN buildStartedEmbed(event, hostTz)
          ELSE IF eventType = Str(S_BUILD_FINISHED) THEN buildFinishedEmbed(event, hostTz)
          ELSE IF eventType = Str(S_BUILD_INTERRUPTED) THEN buildInterruptedEmbed(event, hostTz)
          ELSE Returned(Null)

\* createTeamCityEmbed with no catch around the formatters
createTeamCityEmbed_NoCatch(event, hostTz) == TryCreateTeamCityEmbed(event, hostTz)

\* try { ... } catch (error) { return null }
createTeamCityEmbed(event, hostTz) ==
  Bind(TryCreateTeamCityEmbed(event, hostTz),
       LAMBDA tried : IF tried.threw THEN Returned(Null) ELSE tried)


(***************************************************************************)
(* src/webhook.ts: the POST handler                                        *)
(***************************************************************************)
DISCORD_LIMITS_DESCRIPTION == 4096
COLOR_FALLBACK == 16711680

S_WebhookEventReceived ==
  <<"W", "e", "b", "h", "o", "o", "k", " ", "E", "v", "e", "n", "t", " ", "R", "e", "c", "e",
    "i", "v", "e", "d">>
S_EventTypeColon == <<"E", "v", "e", "n", "t", " ", "T", "y", "p", "e", ":", " ">>
S_FallbackNotification ==
  <<"F", "a", "l", "l", "b", "a", "c", "k", " ", "N", "o", "t", "i", "f", "i", "c", "a", "t",
    "i", "o", "n">>
S_FailedToProcess ==
  <<"F", "a", "i", "l", "e", "d", " ", "t", "o", " ", "p", "r", "o", "c", "e", "s", "s", " ">>
S_spaceEvent == <<" ", "e", "v", "e", "n", "t">>
S_ErrorNotification ==
  <<"E", "r", "r", "o", "r", " ", "N", "o", "t", "i", "f", "i", "c", "a", "t", "i", "o", "n">>
S_ProcessingErrorTitle ==
  <<"[warning]", "[vs16]", " ", "W", "e", "b", "h", "o", "o", "k", " ", "P", "r", "o", "c", "e",
    "s", "s", "i", "n", "g", " ", "E", "r", "r", "o", "r">>

\* embed.setDescription(description): EmbedBuilder throws on a description that is
\* empty or longer than 4096 characters
setDescription(b, description) ==
  IF b.threw THEN b
  ELSE IF Len(description) < 1 \/ Len(description) > DISCORD_LIMITS_DESCRIPTION THEN Throw(b)
  ELSE [b EXCEPT !.embed.description = description]

\* the minimal card of `if (!embed) { ... }`
MinimalEmbed(reqBody) ==
  Outcome(setDescription(
    Builder(NewEmbed(S_WebhookEventReceived, COLOR_FALLBACK, S_FallbackNotification)),
    S_EventTypeColon \o ToStr(OrElse(OptGet(reqBody, K_eventType), Str(S_Unknown)))))

\* a catch block whose error card cannot be built
FallbackEmbed_Throws(reqBody) == Thrown

\* the card of the catch block
FallbackEmbed(reqBody) ==
  Outcome(setDescription(
    Builder(NewEmbed(S_ProcessingErrorTitle, COLOR_FALLBACK, S_ErrorNotification)),
    S_FailedToProcess \o ToStr(OrElse(OptGet(reqBody, K_eventType), Str(S_unknown)))
    \o S_spaceEvent))

\* createTeamCityEmbed on the event itself when it is valid, else on the sanitized event
DispatchValidated(reqBody, hostTz) ==
  IF validateTeamCityEvent(reqBody).isValid THEN createTeamCityEmbed(reqBody, hostTz)
  ELSE Bind(sanitizeTeamCityEvent(reqBody),
            LAMBDA sanitizedEvent : IF sanitizedEvent.threw THEN Thrown
                                    ELSE createTeamCityEmbed(sanitizedEvent.value, hostTz))

\* the handler with the generic formatter given the sanitized event, not the request body
BuildHandlerEmbed_GenericOfSanitized(reqBody, hostTz) ==
  Bind(IF isTeamCityWebhookEvent(reqBody)
       THEN Bind(DispatchValidated(reqBody, hostTz),
                 LAMBDA specialized :
                   IF specialized.threw THEN Thrown
                   ELSE IF Truthy(specialized.value) THEN specialized
                   ELSE buildWebSocketEventEmbed(sanitizeTeamCityEvent(reqBody).value, hostTz))
       ELSE buildWebSocketEventEmbed(reqBody, hostTz),
       LAMBDA chosen : IF chosen.threw THEN Thrown
                       ELSE IF Truthy(chosen.value) THEN chosen
                       ELSE MinimalEmbed(reqBody))

\* from `if (isTeamCityWebhookEvent(req.body))` to the end of `if (!embed)`: the card
\* of a body that passed the basic validation, or the exception that leaves the try block
BuildHandlerEmbed(reqBody, hostTz) ==
  Bind(IF isTeamCityWebhookEvent(reqBody)
       THEN Bind(DispatchValidated(reqBody, hostTz),
                 LAMBDA specialized :
                   IF specialized.threw THEN Thrown
                   ELSE IF Truthy(specialized.value) THEN specialized
                   ELSE buildWebSocketEventEmbed(reqBody, hostTz))
       ELSE buildWebSocketEventEmbed(reqBody, hostTz),
       LAMBDA chosen : IF chosen.threw THEN Thrown
                       ELSE IF Truthy(chosen.value) THEN chosen
                       ELSE MinimalEmbed(reqBody))


(***************************************************************************)
(* SpecText: truncateText applied to every short string and length.        *)
(***************************************************************************)
TextAlphabet == {"a", "b"}

RECURSIVE StringsUpTo(_)
StringsUpTo(n) ==
  IF n = 0 THEN {<<>>}
  ELSE LET shorter == StringsUpTo(n - 1)
       IN shorter \cup {Append(s, c) : s \in {x \in shorter : Len(x) = n - 1}, c \in TextAlphabet}

IdleText == /\ txtIn = Undef
            /\ txtMax = 0
            /\ txtOut = <<>>

IdleFn == /\ fnIn = Undef
          /\ fnOut = Undef

\* no walk under way, no deliveries in flight
NoWalk == [stack |-> <<>>, b |-> Undef, calls |-> <<>>]
NoFlights == <<>>
IdleAux == /\ walk = NoWalk
           /\ flights = NoFlights

IdleHandler == /\ body = Undef
               /\ handlerEmbed = Undef
               /\ response = <<>>
               /\ sink = <<>>
               /\ rejected = 0
               /\ chanOk = FALSE

InitText ==
  /\ pc = "text_ready"
  /\ IdleAux
  /\ txtIn \in {Str(s) : s \in StringsUpTo(MaxStrLen)}
  /\ txtMax \in 0..MaxTruncLen
  /\ txtOut = <<>>
  /\ hostZone = 0
  /\ IdleFn
  /\ IdleHandler

Truncate ==
  /\ pc = "text_ready"
  /\ pc' = "text_done"
  /\ txtOut' = truncateText(txtIn, txtMax, DefaultSuffix)
  /\ UNCHANGED <<txtIn, txtMax, hostZone, fnVars, handlerVars, auxVars>>

NextText == Truncate

SpecText == InitText /\ [][NextText]_vars

(***************************************************************************)
(* C10 as stated: for all strings s and all n >= 0, truncateText(s, n) has  *)
(* length at most n and equals s whenever length(s) <= n.                  *)
(***************************************************************************)
C10_AsStated ==
  pc = "text_done" =>
    /\ Len(txtOut) <= txtMax
    /\ (Len(txtIn.s) <= txtMax => txtOut = txtIn.s)

(***************************************************************************)
(* C10 amended: for all strings s, truncateText(s, n) has length at most n *)
(* for every n >= 3 (the length of the default suffix), and for every      *)
(* n >= 0 it equals s whenever length(s) <= n.                             *)
(***************************************************************************)
C10_TruncateBound ==
  pc = "text_done" =>
    /\ (txtMax >= Len(DefaultSuffix) => Len(txtOut) <= txtMax)
    /\ (Len(txtIn.s) <= txtMax => txtOut = txtIn.s)

\* a string longer than the limit has been cut to exactly the limit
C10_Witness ==
  /\ pc = "text_done"
  /\ txtMax >= Len(DefaultSuffix)
  /\ Len(txtIn.s) > txtMax
  /\ Len(txtOut) = txtMax
  /\ txtOut # txtIn.s

(***************************************************************************)
(* The inputs the formatters are called on.                                *)
(***************************************************************************)
HostZones == {-180, 0}

Entry(k, v) == [k |-> k, v |-> v]
\* a string of n characters
LongText(n) == [i \in 1..n |-> "x"]
\* n regular keys f1 .. fn, each a number
Filler(n) == [i \in 1..n |-> Entry(<<"f">> \o NatToStr(i), Num(i))]
\* the first m priority keys, each a number
PriorityEntries(m) == [i \in 1..m |-> Entry(priorityFields[i], Num(i))]
\* an object with the first m priority keys that isSimpleObject rejects (a null member)
NestedWith(m) == Obj(PriorityEntries(m) \o <<Entry(<<"x">>, Null)>>)
\* objects nested four deep below the key, none of them simple
DeepObject ==
  Obj(<<Entry(<<"a">>, Num(1)), Entry(<<"x">>, Null),
        Entry(<<"b">>, Obj(<<Entry(<<"a">>, Num(2)), Entry(<<"x">>, Null),
              Entry(<<"c">>, Obj(<<Entry(<<"a">>, Num(3)), Entry(<<"x">>, Null),
                    Entry(<<"d">>, Obj(<<Entry(<<"a">>, Num(4)), Entry(<<"x">>, Null)>>))>>))>>))>>)
K_self == <<"s", "e", "l", "f">>
\* an object, not a simple one, that two keys of a payload refer to
SharedObject == Shared(1, <<Entry(<<"a">>, Num(1)), Entry(<<"x">>, Null)>>)
S_sampleUrl ==
  <<"h", "t", "t", "p", "s", ":", "/", "/", "c", "i", ".", "e", "x", "a", "m", "p", "l", "e",
    "/", "b", "u", "i", "l", "d", "/", "1">>
S_sampleStart ==
  <<"2", "0", "2", "5", "0", "8", "1", "2", "T", "0", "0", "0", "0", "1", "2", "-", "0", "3",
    "0", "0">>
S_sampleFinish ==
  <<"2", "0", "2", "5", "0", "8", "1", "2", "T", "0", "0", "3", "4", "1", "1", "-", "0", "3",
    "0", "0">>

\* what follows the filler keys of a generated payload
PayloadTails ==
  {<<>>,
   <<Entry(K_id, Num(1))>>,
   <<Entry(K_name, Str(<<>>))>>,
   <<Entry(K_name, Str(<<" ", "\t">>))>>,
   <<Entry(K_name, Null)>>,
   <<Entry(<<"z">>, DeepObject)>>,
   <<Entry(<<"z">>, Obj(<<>>))>>,
   <<Entry(K_agent, Obj(<<Entry(K_id, Num(4)), Entry(K_name, Str(<<"A">>))>>)), Entry(K_id, Num(1))>>,
   <<Entry(<<"z">>, Arr(<<>>))>>,
   <<Entry(<<"z">>, Arr(<<Str(<<>>)>>))>>,
   <<Entry(<<"z">>, Arr(<<Num(1), Null, Str(<<"s">>), Obj(<<Entry(K_id, Num(2))>>), DeepObject,
                          Arr(<<>>)>>))>>,
   <<Entry(<<"z">>, Str(LongText(DISCORD_LIMITS_FIELD_VALUE + 1)))>>,
   <<Entry(LongText(DISCORD_LIMITS_FIELD_NAME + 1), Num(1))>>,
   <<Entry(K_webUrl, Bool(TRUE))>>,
   <<Entry(K_webUrl, Str(S_sampleUrl)), Entry(<<"o", "k">>, Bool(FALSE))>>,
   <<Entry(K_startDate, Str(S_sampleStart))>>,
   \* booleans under keys named like timestamps and links, and in an array
   <<Entry(K_startDate, Bool(TRUE)), Entry(K_time, Bool(FALSE)), Entry(K_href, Bool(FALSE))>>,
   <<Entry(<<"z">>, Arr(<<Bool(TRUE), Bool(FALSE)>>))>>}
  \cup {<<Entry(<<"z">>, NestedWith(m))>> : m \in 0..Len(priorityFields)}
  \cup {<<Entry(K_buildType, NestedWith(m))>> : m \in {1, Len(priorityFields)}}

\* payload tails that no JSON text gives: objects met more than once
ReferenceTails ==
  {\* one object under two sibling keys, and under a key of its sibling
   <<Entry(<<"p">>, SharedObject), Entry(<<"q">>, SharedObject)>>,
   <<Entry(<<"p">>, SharedObject), Entry(<<"q">>, Obj(<<Entry(<<"r">>, SharedObject)>>))>>,
   \* an object that holds itself
   <<Entry(<<"z">>, Obj(<<Entry(<<"a">>, Num(1)), Entry(K_self, Cycle)>>))>>}

Event(eventType, payload) ==
  Obj((IF eventType = Undef THEN <<>> ELSE <<Entry(K_eventType, eventType)>>)
      \o (IF payload = Undef THEN <<>> ELSE <<Entry(K_payload, payload)>>))

NonObjectInputs == {Undef, Null, Num(0), Num(7), Str(<<>>), Str(<<"e">>), Bool(TRUE)}

GenericEvents ==
  {Event(Str(<<"T">>), Obj(Filler(n) \o tail)) :
     n \in 0..MaxWide, tail \in PayloadTails \cup ReferenceTails}
  \cup {Event(et, Obj(<<Entry(K_id, Num(1))>>)) :
          et \in {Undef, Null, Num(3), Str(<<>>), Str(LongText(DISCORD_LIMITS_TITLE + 1))}}
  \cup {Event(Str(<<"T">>), p) :
          p \in {Undef, Null, Num(1), Str(<<"p">>), Arr(<<Num(1), Str(<<>>)>>), Arr(<<Num(1)>>)}}

\* obj without the key k, and obj with k set to v (a new key goes last)
Without(obj, k) == Obj(SelectSeq(obj.e, LAMBDA e : e.k # k))
With(obj, k, v) ==
  IF \E i \in 1..Len(obj.e) : obj.e[i].k = k
  THEN Obj([i \in 1..Len(obj.e) |-> IF obj.e[i].k = k THEN Entry(k, v) ELSE obj.e[i]])
  ELSE Obj(Append(obj.e, Entry(k, v)))

S_sampleName == <<"D", "e", "p", "l", "o", "y">>
S_sampleProject == <<"M", "y", " ", "A", "p", "p">>
S_garbage == <<"n", "o", "t", " ", "a", " ", "d", "a", "t", "e">>

SampleBuildType ==
  Obj(<<Entry(K_id, Str(<<"b", "t">>)), Entry(K_name, Str(S_sampleName)),
        Entry(K_projectName, Str(S_sampleProject))>>)

\* the required fields of a build event's payload
BasePayload ==
  Obj(<<Entry(K_id, Num(12345)), Entry(K_buildTypeId, Str(<<"b", "t">>)),
        Entry(K_number, Str(<<"4", "2">>)), Entry(K_status, Str(S_SUCCESS)),
        Entry(K_state, Str(<<"r", "u", "n">>)), Entry(K_webUrl, Str(S_sampleUrl)),
        Entry(K_statusText, Str(<<"O", "K">>)), Entry(K_buildType, SampleBuildType)>>)

SampleChange == Obj(<<Entry(K_username, Str(<<"d", "e", "v">>)), Entry(K_date, Str(S_sampleStart))>>)

\* the optional sub-records, well formed
OptionalEntries ==
  <<Entry(K_agent, Obj(<<Entry(K_id, Num(7)), Entry(K_name, Str(<<"A", "1">>))>>)),
    Entry(K_runningInfo,
          Obj(<<Entry(K_percentageComplete, Num(45)), Entry(K_elapsedSeconds, Num(120)),
                Entry(K_estimatedTotalSeconds, Num(300)),
                Entry(K_currentStageText, Str(<<"S", "t", "e", "p">>))>>)),
    Entry(K_canceledInfo,
          Obj(<<Entry(K_timestamp, Str(S_sampleFinish)),
                Entry(K_text, Str(<<" ", "w", "h", "y", " ">>)),
                Entry(K_user, Obj(<<Entry(K_username, Str(<<"o", "p">>))>>))>>)),
    Entry(K_lastChanges, Obj(<<Entry(K_count, Num(1)), Entry(K_change, Arr(<<SampleChange>>))>>)),
    Entry(K_startDate, Str(S_sampleStart)),
    Entry(K_finishDate, Str(S_sampleFinish))>>

OptionalKeys == {OptionalEntries[i].k : i \in DOMAIN OptionalEntries}

\* the payload with the required fields and the optional sub-records named in `present`
PayloadWith(present) ==
  Obj(BasePayload.e \o SelectSeq(OptionalEntries, LAMBDA e : e.k \in present))

FullPayload == PayloadWith(OptionalKeys)

KnownKinds == {S_BUILD_STARTED, S_BUILD_FINISHED, S_BUILD_INTERRUPTED}

\* well-formed events of the three kinds, with every subset of the optional sub-records
WellFormedEvents ==
  {Event(Str(kind), PayloadWith(present)) : kind \in KnownKinds, present \in SUBSET OptionalKeys}
  \cup {Event(Str(kind), With(PayloadWith(present), K_status, Str(<<"F", "A", "I", "L">>))) :
          kind \in KnownKinds, present \in {{}, OptionalKeys}}

\* payloads one step away from a well-formed one
DeviantPayloads ==
  {Without(FullPayload, K_buildType),
   With(FullPayload, K_buildType, Null),
   With(FullPayload, K_buildType, Str(<<"b">>)),
   With(FullPayload, K_buildType, Bool(FALSE)),
   With(FullPayload, K_buildType, Num(0)),
   With(FullPayload, K_buildType, Without(SampleBuildType, K_name)),
   With(FullPayload, K_buildType, Without(SampleBuildType, K_projectName)),
   With(FullPayload, K_buildType, With(SampleBuildType, K_name, Str(<<>>))),
   With(FullPayload, K_buildType, With(SampleBuildType, K_name, Str(<<" ">>))),
   With(FullPayload, K_buildType, With(SampleBuildType, K_name, Num(5))),
   With(FullPayload, K_buildType, With(SampleBuildType, K_projectName, Null)),
   With(FullPayload, K_buildType,
        With(SampleBuildType, K_name, Str(LongText(DISCORD_LIMITS_TITLE + 1)))),
   With(FullPayload, K_statusText, Str(LongText(DISCORD_LIMITS_FIELD_VALUE + 1))),
   Without(Without(Without(FullPayload, K_statusText), K_status), K_state),
   Without(FullPayload, K_number),
   Without(FullPayload, K_id),
   With(FullPayload, K_id, Num(0)),
   With(FullPayload, K_status, Str(<<"s", "u", "c", "c", "e", "s", "s">>)),
   Without(FullPayload, K_webUrl),
   With(FullPayload, K_webUrl, Str(S_https)),
   With(FullPayload, K_webUrl, Num(1)),
   With(FullPayload, K_agent, Null),
   With(FullPayload, K_agent, Obj(<<>>)),
   With(FullPayload, K_runningInfo, Null),
   With(FullPayload, K_runningInfo, Obj(<<>>)),
   With(FullPayload, K_runningInfo, Obj(<<Entry(K_currentStageText, Num(3))>>)),
   With(FullPayload, K_canceledInfo, Null),
   With(FullPayload, K_canceledInfo, Obj(<<Entry(K_text, Str(<<" ">>))>>)),
   With(FullPayload, K_canceledInfo,
        Obj(<<Entry(K_timestamp, Str(S_garbage)), Entry(K_user, Obj(<<Entry(K_username, Str(<<"o">>))>>))>>)),
   With(FullPayload, K_lastChanges, Null),
   With(FullPayload, K_lastChanges, Obj(<<Entry(K_count, Num(0)), Entry(K_change, Arr(<<>>))>>)),
   With(FullPayload, K_lastChanges, Obj(<<Entry(K_count, Num(1)), Entry(K_change, Arr(<<>>))>>)),
   With(FullPayload, K_lastChanges, Obj(<<Entry(K_count, Num(2))>>)),
   With(FullPayload, K_lastChanges,
        Obj(<<Entry(K_count, Num(3)), Entry(K_change, Arr(<<SampleChange, SampleChange>>))>>)),
   With(FullPayload, K_lastChanges,
        Obj(<<Entry(K_count, Num(1)),
              Entry(K_change, Arr(<<Without(SampleChange, K_date)>>))>>)),
   With(FullPayload, K_lastChanges,
        Obj(<<Entry(K_count, Num(1)), Entry(K_change, Arr(<<SampleChange, SampleChange>>))>>)),
   With(FullPayload, K_lastChanges, Obj(<<Entry(K_count, Num(3)), Entry(K_change, Arr(<<>>))>>)),
   With(FullPayload, K_lastChanges,
        Obj(<<Entry(K_count, Num(-1)), Entry(K_change, Arr(<<SampleChange>>))>>)),
   With(Without(FullPayload, K_runningInfo), K_canceledInfo,
        Obj(<<Entry(K_timestamp, Str(S_garbage)), Entry(K_user, Obj(<<Entry(K_username, Str(<<"o">>))>>))>>)),
   With(FullPayload, K_startDate, Str(S_garbage)),
   With(FullPayload, K_startDate, Num(5)),
   With(FullPayload, K_finishDate, Str(S_garbage)),
   With(FullPayload, K_self, Cycle),
   With(PayloadWith({}), K_self, Cycle)}

\* events of a known kind on a deviant payload, and well-formed payloads under other kinds
DeviantEvents ==
  {Event(Str(kind), p) : kind \in KnownKinds, p \in DeviantPayloads}
  \cup {Event(et, FullPayload) :
          et \in {Undef, Null, Num(1), Str(S_BUILD_ \o <<"Q", "U", "E", "U", "E", "D">>),
                  Str(S_BUILD_), Str(ToLowerCase(S_BUILD_STARTED)), Str(<<"T">>)}}
  \cup {Event(Str(kind), p) : kind \in KnownKinds, p \in {Undef, Null, Num(1), Obj(<<>>), Cycle}}

BuildEvents == WellFormedEvents \cup DeviantEvents

FnInputs == NonObjectInputs \cup GenericEvents \cup BuildEvents

(***************************************************************************)
(* SpecFn: each formatter called on its own, on every input of FnInputs.   *)
(***************************************************************************)
InitFn ==
  /\ pc = "fn_ready"
  /\ IdleAux
  /\ hostZone \in HostZones
  /\ fnIn \in FnInputs
  /\ fnOut = Undef
  /\ IdleText
  /\ IdleHandler

CallBuildWebSocketEventEmbed ==
  /\ pc = "fn_ready"
  /\ pc' = "generic_done"
  /\ fnOut' = buildWebSocketEventEmbed(fnIn, hostZone)
  /\ UNCHANGED <<textVars, hostZone, fnIn, handlerVars, auxVars>>

CallCreateTeamCityEmbed ==
  /\ pc = "fn_ready"
  /\ pc' = "dispatch_done"
  /\ fnOut' = createTeamCityEmbed(fnIn, hostZone)
  /\ UNCHANGED <<textVars, hostZone, fnIn, handlerVars, auxVars>>

\* whether fnIn is an event of the kind `kind`
IsKind(event, kind) == ~IsNullish(event) /\ Get(event, K_eventType) = Str(kind)

\* a specialized formatter called directly on an event of its kind
CallSpecializedFormatter ==
  /\ pc = "fn_ready"
  /\ \E kind \in KnownKinds : IsKind(fnIn, kind)
  /\ pc' = "formatter_done"
  /\ fnOut' = IF IsKind(fnIn, S_BUILD_STARTED) THEN buildStartedEmbed(fnIn, hostZone)
              ELSE IF IsKind(fnIn, S_BUILD_FINISHED) THEN buildFinishedEmbed(fnIn, hostZone)
              ELSE buildInterruptedEmbed(fnIn, hostZone)
  /\ UNCHANGED <<textVars, hostZone, fnIn, handlerVars, auxVars>>

NextFn ==
  \/ CallBuildWebSocketEventEmbed
  \/ CallCreateTeamCityEmbed
  \/ CallSpecializedFormatter

SpecFn == InitFn /\ [][NextFn]_vars

(***************************************************************************)
(* C3: buildWebSocketEventEmbed never throws and never returns null; for a *)
(* null or non-object event the card has the single field "Invalid or      *)
(* missing event data", and for any object event, also one whose payload   *)
(* walk fails, the card carries title, color, timestamp and footer.        *)
(***************************************************************************)
C3_GenericNeverThrows ==
  pc = "generic_done" =>
    /\ ~fnOut.threw
    /\ fnOut.value # Null
    /\ fnOut.value.t = "embed"
    /\ (~Truthy(fnIn) \/ TypeOf(fnIn) # "object") =>
         fnOut.value.fields =
           <<[name |-> S_Error, value |-> S_InvalidOrMissing, inline |-> FALSE]>>
    /\ (Truthy(fnIn) /\ TypeOf(fnIn) = "object") =>
         /\ StartsWith(fnOut.value.title, S_WebhookEvent)
         /\ fnOut.value.color = GenericColor
         /\ fnOut.value.timestamp = "now"
         /\ fnOut.value.footer = S_WebhookNotification

(***************************************************************************)
(* C4: for every payload, however wide or deep and whatever the order and  *)
(* nesting of its keys, priority keys inside nested objects included, the  *)
(* card the generic formatter returns has at most 20 fields.               *)
(***************************************************************************)
C4_AtMostMaxFields ==
  (pc = "generic_done" /\ ~fnOut.threw) => Len(fnOut.value.fields) <= MAX_FIELDS

(***************************************************************************)
(* C2: createTeamCityEmbed never throws, whatever it is given: every call  *)
(* returns a card or null, also when the chosen formatter raises.          *)
(***************************************************************************)
C2_DispatchNeverThrows ==
  pc = "dispatch_done" =>
    /\ ~fnOut.threw
    /\ fnOut.value = Null \/ fnOut.value.t = "embed"

\* the formatter chosen for the event raised, and the call returned null
C2_Witness ==
  /\ pc = "dispatch_done"
  /\ TryCreateTeamCityEmbed(fnIn, hostZone).threw
  /\ fnOut = Returned(Null)

\* the color the card of an event of a known kind carries
KindColor(event) ==
  IF IsKind(event, S_BUILD_STARTED) THEN COLOR_STARTED
  ELSE IF IsKind(event, S_BUILD_INTERRUPTED) THEN COLOR_INTERRUPTED
  ELSE IF Get(Get(event, K_payload), K_status) = Str(S_SUCCESS) THEN COLOR_SUCCESS
  ELSE COLOR_FAILURE

\* the card of the formatter of the event's kind
KindCard(event, hostTz) ==
  IF IsKind(event, S_BUILD_STARTED) THEN buildStartedEmbed(event, hostTz)
  ELSE IF IsKind(event, S_BUILD_FINISHED) THEN buildFinishedEmbed(event, hostTz)
  ELSE buildInterruptedEmbed(event, hostTz)

(***************************************************************************)
(* C6: createTeamCityEmbed returns a card only when the event, its         *)
(* eventType and its payload are present, buildType.name and               *)
(* buildType.projectName are non-empty and eventType is exactly one of the *)
(* three known kinds; the card is then the one of that kind's formatter,   *)
(* with that kind's color. Every other input gets null.                    *)
(***************************************************************************)
C6_CardOnlyForKnownKind ==
  (pc = "dispatch_done" /\ ~fnOut.threw /\ fnOut.value # Null) =>
    /\ Truthy(fnIn)
    /\ Truthy(Get(fnIn, K_eventType))
    /\ Truthy(Get(fnIn, K_payload))
    /\ Truthy(Get(Get(Get(fnIn, K_payload), K_buildType), K_name))
    /\ Truthy(Get(Get(Get(fnIn, K_payload), K_buildType), K_projectName))
    /\ \E kind \in KnownKinds : IsKind(fnIn, kind)
    /\ fnOut = KindCard(fnIn, hostZone)
    /\ fnOut.value.color = KindColor(fnIn)

\* a BUILD_FINISHED event whose status is not "SUCCESS" got the red card
C6_Witness ==
  /\ pc = "dispatch_done"
  /\ ~fnOut.threw
  /\ fnOut.value # Null
  /\ IsKind(fnIn, S_BUILD_FINISHED)
  /\ Get(Get(fnIn, K_payload), K_status) # Str(S_SUCCESS)
  /\ fnOut.value.color = COLOR_FAILURE

\* the names of the fields of a card
FieldNames(card) == {card.fields[i].name : i \in DOMAIN card.fields}

\* the field names that belong to each optional sub-record
OptionalFieldNames ==
  [k \in OptionalKeys |->
     CASE k = K_agent -> {S_Agent}
       [] k = K_runningInfo -> {S_Progress, S_EstTimeRemaining}
       [] k = K_canceledInfo -> {S_CancellationReason, S_CanceledBy, S_CanceledAt}
       [] k = K_lastChanges -> {S_LastChange, S_Changes}
       [] k = K_startDate -> {S_StartedAt}
       [] k = K_finishDate -> {S_BuildDuration, S_FinishedAt}]

(***************************************************************************)
(* C8: a specialized formatter called on an event of its kind that has all *)
(* required fields, with any subset of the optional sub-records absent,    *)
(* returns a card without raising; and a card holds the fields of an       *)
(* optional sub-record only if the payload has that sub-record.            *)
(***************************************************************************)
C8_OptionalAbsenceIsNoError ==
  pc = "formatter_done" =>
    /\ fnIn \in WellFormedEvents => ~fnOut.threw
    /\ ~fnOut.threw =>
         \A k \in OptionalKeys :
           (FieldNames(fnOut.value) \cap OptionalFieldNames[k] # {}) =>
             Get(Get(fnIn, K_payload), k).t # "undef"

\* an interrupted build with no optional sub-record got the five fields that need none
C8_Witness ==
  /\ pc = "formatter_done"
  /\ fnIn = Event(Str(S_BUILD_INTERRUPTED), PayloadWith({}))
  /\ ~fnOut.threw
  /\ FieldNames(fnOut.value) = {S_Project, S_BuildType, S_BuildNumber, S_Status, S_TeamCityLink}

(***************************************************************************)
(* C9: every card that createTeamCityEmbed or buildWebSocketEventEmbed     *)
(* returns has a title of at most 256 characters, field names of at most   *)
(* 256, field values of at most 1024, a footer of at most 2048, and at     *)
(* most 25 fields.                                                         *)
(***************************************************************************)
C9_CardWithinLimits ==
  (pc \in {"dispatch_done", "generic_done"} /\ ~fnOut.threw /\ fnOut.value # Null) =>
    /\ Len(fnOut.value.title) <= DISCORD_LIMITS_TITLE
    /\ Len(fnOut.value.footer) <= DISCORD_LIMITS_FOOTER_TEXT
    /\ Len(fnOut.value.fields) <= DISCORD_MAX_FIELDS
    /\ \A i \in DOMAIN fnOut.value.fields :
         /\ Len(fnOut.value.fields[i].name) <= DISCORD_LIMITS_FIELD_NAME
         /\ Len(fnOut.value.fields[i].value) <= DISCORD_LIMITS_FIELD_VALUE

\* a card whose title was cut to the limit, for a build name longer than the limit
C9_Witness ==
  /\ pc = "dispatch_done"
  /\ ~fnOut.threw
  /\ fnOut.value # Null
  /\ Len(fnOut.value.title) = DISCORD_LIMITS_TITLE
  /\ Len(ToStr(Get(Get(Get(fnIn, K_payload), K_buildType), K_name))) > DISCORD_LIMITS_TITLE

(***************************************************************************)
(* Spec: one delivery to the webhook route, from the request to the end of *)
(* its handler.                                                            *)
(***************************************************************************)
\* a payload on which the generic formatter adds a 26th field
OverfullPayload ==
  Obj(Filler(MAX_FIELDS - 1) \o <<Entry(<<"z">>, NestedWith(Len(priorityFields)))>>)

S_BUILD_QUEUED == S_BUILD_ \o <<"Q", "U", "E", "U", "E", "D">>

\* what express.json() hands the handler: an object or an array
Bodies ==
  {Obj(<<>>), Arr(<<>>), Arr(<<Num(1)>>)}
  \cup {Event(et, p) : et \in {Undef, Null, Num(3), Str(<<>>), Str(<<"T">>), Str(S_BUILD_STARTED)},
                       p \in {Undef, Null, Num(1), Str(<<"p">>), Obj(<<>>), Arr(<<Num(1)>>)}}
  \cup {Event(Str(<<"T">>), Obj(Filler(n) \o tail)) :
          n \in {0, MAX_FIELDS - 1}, tail \in PayloadTails}
  \cup {Event(Str(et), OverfullPayload) :
          et \in {S_BUILD_QUEUED, S_BUILD_STARTED, LongText(DISCORD_LIMITS_DESCRIPTION)}}
  \cup {Event(Str(LongText(DISCORD_LIMITS_DESCRIPTION)), Obj(<<Entry(K_id, Num(1))>>))}
  \cup {Event(Str(S_BUILD_QUEUED), Obj(<<Entry(K_id, Num(1))>>))}
  \* a parsed JSON text holds no reference back into itself
  \cup {e \in BuildEvents : Get(e, K_payload) # Cycle /\ OptGet(Get(e, K_payload), K_self) # Cycle}

InitHandler ==
  /\ pc = "received"
  /\ IdleAux
  /\ hostZone \in HostZones
  /\ body \in Bodies
  /\ chanOk \in BOOLEAN
  /\ handlerEmbed = Undef
  /\ response = <<>>
  /\ sink = <<>>
  /\ rejected = 0
  /\ IdleText
  /\ IdleFn

\* the basic validation without the return after the 400
Validate_NoReturn ==
  /\ pc = "received"
  /\ response' = IF validateWebhookEvent(body).isValid THEN response
                 ELSE Append(response, 400)
  /\ pc' = "validated"
  /\ UNCHANGED <<textVars, fnVars, hostZone, body, handlerEmbed, sink, rejected, chanOk, auxVars>>

\* the basic validation: a body that fails it is answered 400 and the handler returns
Validate ==
  /\ pc = "received"
  /\ IF validateWebhookEvent(body).isValid
     THEN /\ pc' = "validated"
          /\ UNCHANGED response
     ELSE /\ response' = Append(response, 400)
          /\ pc' = "done"
  /\ UNCHANGED <<textVars, fnVars, hostZone, body, handlerEmbed, sink, rejected, chanOk, auxVars>>

\* the card is chosen and built; an exception goes to the catch block
BuildEmbed ==
  /\ pc = "validated"
  /\ \E built \in {BuildHandlerEmbed(body, hostZone)} :
       IF built.threw
       THEN /\ pc' = "caught"
            /\ UNCHANGED handlerEmbed
       ELSE /\ handlerEmbed' = built.value
            /\ pc' = "built"
  /\ UNCHANGED <<textVars, fnVars, hostZone, body, response, sink, rejected, chanOk, auxVars>>

\* res.sendStatus(200)
Acknowledge ==
  /\ pc = "built"
  /\ response' = Append(response, 200)
  /\ pc' = "acked"
  /\ UNCHANGED <<textVars, fnVars, hostZone, body, handlerEmbed, sink, rejected, chanOk, auxVars>>

\* await channel.send({ embeds: [embed] }): the channel takes the card, or rejects
SendEmbed ==
  /\ pc = "acked"
  /\ chanOk
  /\ \E ok \in BOOLEAN :
       IF ok
       THEN /\ sink' = Append(sink, handlerEmbed)
            /\ pc' = "done"
            /\ UNCHANGED rejected
       ELSE /\ rejected' = rejected + 1
            /\ pc' = "caught"
            /\ UNCHANGED sink
  /\ UNCHANGED <<textVars, fnVars, hostZone, body, handlerEmbed, response, chanOk, auxVars>>

\* no text channel: the card is dropped with a log line
ChannelMissing ==
  /\ pc = "acked"
  /\ ~chanOk
  /\ pc' = "done"
  /\ UNCHANGED <<textVars, fnVars, hostZone, handlerVars, auxVars>>

\* the catch block's inner try without the test of the channel
SendFallback_NoChannelTest ==
  /\ pc = "caught"
  /\ \E fallbackEmbed \in {FallbackEmbed(body)} :
       IF fallbackEmbed.threw
       THEN UNCHANGED <<sink, rejected>>
       ELSE \E ok \in BOOLEAN :
              IF ok
              THEN /\ sink' = Append(sink, fallbackEmbed.value)
                   /\ UNCHANGED rejected
              ELSE /\ rejected' = rejected + 1
                   /\ UNCHANGED sink
  /\ pc' = "fallback_done"
  /\ UNCHANGED <<textVars, fnVars, hostZone, body, handlerEmbed, response, chanOk, auxVars>>

\* the catch block's inner try: the error card is built and sent, and whatever fails
\* there is only logged
SendFallback ==
  /\ pc = "caught"
  /\ \E fallbackEmbed \in {FallbackEmbed(body)} :
       IF fallbackEmbed.threw \/ ~chanOk
       THEN UNCHANGED <<sink, rejected>>
       ELSE \E ok \in BOOLEAN :
              IF ok
              THEN /\ sink' = Append(sink, fallbackEmbed.value)
                   /\ UNCHANGED rejected
              ELSE /\ rejected' = rejected + 1
                   /\ UNCHANGED sink
  /\ pc' = "fallback_done"
  /\ UNCHANGED <<textVars, fnVars, hostZone, body, handlerEmbed, response, chanOk, auxVars>>

\* res.status(500) whether or not the response is already out
RespondError_Always ==
  /\ pc = "fallback_done"
  /\ response' = Append(response, 500)
  /\ pc' = "done"
  /\ UNCHANGED <<textVars, fnVars, hostZone, body, handlerEmbed, sink, rejected, chanOk, auxVars>>

\* if (!res.headersSent) res.status(500)
RespondError ==
  /\ pc = "fallback_done"
  /\ response' = IF Len(response) = 0 THEN Append(response, 500) ELSE response
  /\ pc' = "done"
  /\ UNCHANGED <<textVars, fnVars, hostZone, body, handlerEmbed, sink, rejected, chanOk, auxVars>>

Next ==
  \/ Validate
  \/ BuildEmbed
  \/ Acknowledge
  \/ SendEmbed
  \/ ChannelMissing
  \/ SendFallback
  \/ RespondError

Spec == InitHandler /\ [][Next]_vars

\* the body passes the basic validation: an object with a non-empty string eventType
\* and an object payload
PassesBasic(reqBody) ==
  /\ Truthy(reqBody)
  /\ TypeOf(reqBody) = "object"
  /\ Truthy(Get(reqBody, K_eventType))
  /\ TypeOf(Get(reqBody, K_eventType)) = "string"
  /\ Truthy(Get(reqBody, K_payload))
  /\ TypeOf(Get(reqBody, K_payload)) = "object"

\* the description of the catch block's card fits the description limit
ErrorDescriptionFits(reqBody) ==
  Len(S_FailedToProcess) + Len(ToStr(Get(reqBody, K_eventType))) + Len(S_spaceEvent)
    <= DISCORD_LIMITS_DESCRIPTION

C5_NoMatchFallsBackToGeneric ==
  (pc = "done" /\ chanOk /\ rejected = 0 /\ PassesBasic(body) /\ isTeamCityWebhookEvent(body)) =>
    LET dispatched == DispatchValidated(body, hostZone)
        generic == buildWebSocketEventEmbed(body, hostZone)
    IN IF dispatched.value = Null
       THEN ~generic.threw /\ sink = <<generic.value>>
       ELSE sink = <<dispatched.value>>

\* the raw body has no non-empty payload.buildType.name, or no non-empty projectName
LacksName(reqBody) ==
  ~Truthy(OptGet(OptGet(OptGet(reqBody, K_payload), K_buildType), K_name))
LacksProjectName(reqBody) ==
  ~Truthy(OptGet(OptGet(OptGet(reqBody, K_payload), K_buildType), K_projectName))

\* the value of the field of a card named `name`
FieldValue(card, name) ==
  card.fields[CHOOSE i \in DOMAIN card.fields : card.fields[i].name = name].value

MaxSmallSeconds == 130

\* n in decimal, at least `width` digits wide
Pad(n, width) ==
  Bind(NatToStr(n), LAMBDA digits : [i \in 1..(width - Len(digits)) |-> "0"] \o digits)

\* the timestamp YYYYMMDDThhmmss+hhmm of a date, a time of day and an offset
Stamp(date, time, offset) ==
  Pad(date.y, 4) \o Pad(date.m, 2) \o Pad(date.d, 2) \o <<"T">>
  \o Pad(time.h, 2) \o Pad(time.mi, 2) \o Pad(time.s, 2)
  \o <<offset.sign>> \o Pad(offset.h, 2) \o Pad(offset.mi, 2)

Date(y, m, d) == [y |-> y, m |-> m, d |-> d]
Time(h, mi, s) == [h |-> h, mi |-> mi, s |-> s]
Offset(sign, h, mi) == [sign |-> sign, h |-> h, mi |-> mi]

SampleDates ==
  {Date(2024, 2, 29), Date(2025, 2, 28), Date(2025, 2, 29), Date(2025, 2, 30),
   Date(2025, 4, 31), Date(2025, 8, 12), Date(2025, 12, 31), Date(2025, 1, 1),
   Date(2025, 13, 1), Date(2025, 0, 10), Date(2025, 8, 0), Date(2025, 8, 32)}
SampleTimes ==
  {Time(0, 0, 12), Time(12, 0, 0), Time(23, 59, 59), Time(24, 0, 0), Time(12, 60, 0),
   Time(12, 0, 60)}
SampleOffsets ==
  {Offset("+", 0, 0), Offset("-", 3, 0), Offset("+", 5, 0), Offset("+", 14, 0),
   Offset("-", 12, 0), Offset("+", 24, 0), Offset("+", 0, 60)}

SampleStamps == {Stamp(d, t, o) : d \in SampleDates, t \in SampleTimes, o \in SampleOffsets}

\* what parseTeamCityTimestamp is called on
ParseInputs ==
  {Str(s) : s \in SampleStamps}
  \cup {Undef, Null, Num(123), Str(<<>>), Str(S_garbage), Str(SubSeq(S_sampleStart, 1, 15))}

\* what formatElapsedTime is called on
ElapsedInputs ==
  {Num(t) : t \in (-5..MaxSmallSeconds)
                  \cup {3599, 3600, 3601, 3660, 3661, 7200, 7261, 86399, 86400, 90061, 360000}}

\* the timestamps calculateDuration is called on: noon, later and earlier the same
\* day, the same instant under another offset, a day later, late evening, no date
DurationStamps ==
  {Stamp(Date(2025, 8, 12), Time(12, 0, 0), Offset("-", 3, 0)),
   Stamp(Date(2025, 8, 12), Time(12, 1, 30), Offset("-", 3, 0)),
   Stamp(Date(2025, 8, 12), Time(13, 31, 30), Offset("-", 3, 0)),
   Stamp(Date(2025, 8, 12), Time(11, 59, 0), Offset("-", 3, 0)),
   Stamp(Date(2025, 8, 12), Time(15, 0, 0), Offset("+", 0, 0)),
   Stamp(Date(2025, 8, 13), Time(12, 0, 0), Offset("-", 3, 0)),
   Stamp(Date(2025, 8, 12), Time(23, 30, 0), Offset("-", 3, 0)),
   Stamp(Date(2025, 2, 30), Time(12, 0, 0), Offset("-", 3, 0))}

DurationArgs ==
  {Str(s) : s \in DurationStamps} \cup {Undef, Null, Num(5), Str(<<>>), Str(S_garbage)}

DurationInputs == {Arr(<<start, end>>) : start \in DurationArgs, end \in DurationArgs}

\* the host's zones: west of UTC, UTC, and east of it by five and a half hours
UtilHostZones == HostZones \cup {330}

InitUtil ==
  /\ \/ /\ pc = "parse_ready"
        /\ fnIn \in ParseInputs
        /\ hostZone \in UtilHostZones
     \/ /\ pc = "elapsed_ready"
        /\ fnIn \in ElapsedInputs
        /\ hostZone = 0
     \/ /\ pc = "duration_ready"
        /\ fnIn \in DurationInputs
        /\ hostZone \in UtilHostZones
  /\ fnOut = Undef
  /\ IdleText
  /\ IdleHandler
  /\ IdleAux

CallParseTeamCityTimestamp ==
  /\ pc = "parse_ready"
  /\ pc' = "parse_done"
  /\ fnOut' = parseTeamCityTimestamp(fnIn, hostZone)
  /\ UNCHANGED <<textVars, hostZone, fnIn, handlerVars, auxVars>>

CallFormatElapsedTime ==
  /\ pc = "elapsed_ready"
  /\ pc' = "elapsed_done"
  /\ fnOut' = Str(formatElapsedTime(fnIn))
  /\ UNCHANGED <<textVars, hostZone, fnIn, handlerVars, auxVars>>

CallCalculateDuration ==
  /\ pc = "duration_ready"
  /\ pc' = "duration_done"
  /\ fnOut' = calculateDuration(fnIn.a[1], fnIn.a[2], hostZone)
  /\ UNCHANGED <<textVars, hostZone, fnIn, handlerVars, auxVars>>

NextUtil ==
  \/ CallParseTeamCityTimestamp
  \/ CallFormatElapsedTime
  \/ CallCalculateDuration

SpecUtil == InitUtil /\ [][NextUtil]_vars

\* the year, month and day a timestamp's first eight digits name
StampDate(s) ==
  Date(ParseDigits(SubSeq(s, 1, 4)), ParseDigits(SubSeq(s, 5, 6)), ParseDigits(SubSeq(s, 7, 8)))

IsLeapYear(y) == (y % 4 = 0 /\ y % 100 # 0) \/ y % 400 = 0

DaysInMonth(y, m) ==
  IF m = 2 THEN (IF IsLeapYear(y) THEN 29 ELSE 28)
  ELSE IF m \in {4, 6, 9, 11} THEN 30
  ELSE 31

\* a string YYYYMMDDThhmmss+hhmm with every part in range, a real calendar date and
\* an offset of at most 23 hours and 59 minutes
ValidStamp(s) ==
  /\ MatchesTimestamp(s)
  /\ StampDate(s).m \in 1..12
  /\ StampDate(s).d \in 1..DaysInMonth(StampDate(s).y, StampDate(s).m)
  /\ ParseDigits(SubSeq(s, 10, 11)) <= 23
  /\ ParseDigits(SubSeq(s, 12, 13)) <= 59
  /\ ParseDigits(SubSeq(s, 14, 15)) <= 59
  /\ ParseDigits(SubSeq(s, 17, 18)) <= 23
  /\ ParseDigits(SubSeq(s, 19, 20)) <= 59

\* getFullYear, getMonth + 1 and getDate of a Date on a host in the zone hostTz
ReadBack(date, hostTz) ==
  CivilFromDays(date.day + (date.sec + hostTz * 60) \div SecondsPerDay)

(***************************************************************************)
(* C11: for every valid timestamp string (parts in range, a real calendar  *)
(* date, a valid offset) parseTeamCityTimestamp returns a non-null instant  *)
(* whose year, month and day read back equal the input digits, whatever    *)
(* the offset in the string and whatever the host's time zone.             *)
(***************************************************************************)
C11_ValidStampRoundTrips ==
  (pc = "parse_done" /\ IsString(fnIn) /\ ValidStamp(fnIn.s)) =>
    /\ fnOut.ok
    /\ ReadBack(fnOut, hostZone) = StampDate(fnIn.s)

\* the seconds a text of parts "Nh", "Nm", "Ns" stands for
RECURSIVE ElapsedTotal(_, _, _)
ElapsedTotal(text, number, total) ==
  IF Len(text) = 0 THEN total
  ELSE IF IsDigitChar(text[1])
  THEN ElapsedTotal(Tail(text), 10 * number + DigitVal(text[1]), total)
  ELSE IF text[1] = "h" THEN ElapsedTotal(Tail(text), 0, total + 3600 * number)
  ELSE IF text[1] = "m" THEN ElapsedTotal(Tail(text), 0, total + 60 * number)
  ELSE IF text[1] = "s" THEN ElapsedTotal(Tail(text), 0, total + number)
  ELSE ElapsedTotal(Tail(text), number, total)

\* the parts "Nh", "Nm", "Ns" of t >= 0 seconds whose number is above zero, in that
\* order and joined by spaces, or "0s" when there is none
ExpectedElapsed(t) ==
  Bind(SelectSeq(<<[n |-> t \div 3600, unit |-> "h"],
                   [n |-> (t % 3600) \div 60, unit |-> "m"],
                   [n |-> t % 60, unit |-> "s"]>>, LAMBDA part : part.n > 0),
       LAMBDA parts :
         IF Len(parts) = 0 THEN S_0s
         ELSE Join([i \in 1..Len(parts) |-> Append(NatToStr(parts[i].n), parts[i].unit)],
                   S_space))

(***************************************************************************)
(* C12: for every integer t, formatElapsedTime(t) is "0s" if t < 0, and    *)
(* otherwise the space-joined parts "Nh", "Nm", "Ns" in that order with    *)
(* h = t div 3600 (no day rollover), m = (t mod 3600) div 60, s = t mod 60, *)
(* a part present only if its number is above zero except that "0s" stands *)
(* when there is no other part; the seconds recomputed from the text are t. *)
(***************************************************************************)
C12_ElapsedParts ==
  pc = "elapsed_done" =>
    IF fnIn.n < 0 THEN fnOut.s = S_0s
    ELSE /\ fnOut.s = ExpectedElapsed(fnIn.n)
         /\ ElapsedTotal(fnOut.s, 0, 0) = fnIn.n

\* more than a day of seconds comes out in hours, minutes and seconds
C12_Witness ==
  /\ pc = "elapsed_done"
  /\ fnIn.n = 90061
  /\ fnOut.s = <<"2", "5", "h", " ", "1", "m", " ", "1", "s">>

\* the instant of a Date, in seconds since the epoch
Instant(date) == date.day * SecondsPerDay + date.sec

(***************************************************************************)
(* C13: calculateDuration(start, end) returns null iff at least one of the *)
(* two timestamps fails to parse; when both parse and end is at or after   *)
(* start it returns formatElapsedTime of the whole seconds between them,   *)
(* and when end is before start it returns "0s".                           *)
(***************************************************************************)
C13_DurationClamped ==
  pc = "duration_done" =>
    Bind(parseTeamCityTimestamp(fnIn.a[1], hostZone), LAMBDA startDate :
    Bind(parseTeamCityTimestamp(fnIn.a[2], hostZone), LAMBDA endDate :
      /\ fnOut = Null <=> (~startDate.ok \/ ~endDate.ok)
      /\ (startDate.ok /\ endDate.ok) =>
           IF Instant(endDate) >= Instant(startDate)
           THEN fnOut = Str(formatElapsedTime(Num(Instant(endDate) - Instant(startDate))))
           ELSE fnOut = Str(S_0s)))

\* an end a minute before the start gives "0s"
C13_Witness ==
  /\ pc = "duration_done"
  /\ fnIn.a[1] = Str(Stamp(Date(2025, 8, 12), Time(12, 0, 0), Offset("-", 3, 0)))
  /\ fnIn.a[2] = Str(Stamp(Date(2025, 8, 12), Time(11, 59, 0), Offset("-", 3, 0)))
  /\ fnOut = Str(S_0s)

(***************************************************************************)
(* SpecValid: the validators, the sanitizer and the strict guard called on *)
(* their own.                                                              *)
(***************************************************************************)
\* payloads with several required fields missing or of another type at once
MixedPayloads ==
  {With(With(Without(Without(FullPayload, K_status), K_state), K_id, Num(0)), K_webUrl, Num(1)),
   With(With(FullPayload, K_number, Null), K_buildTypeId, Null),
   With(FullPayload, K_id, Str(<<"a", "b", "c">>)),
   With(FullPayload, K_id, Null),
   With(FullPayload, K_number, Num(42)),
   With(FullPayload, K_status, Bool(TRUE)),
   With(FullPayload, K_buildType, Arr(<<Num(1)>>)),
   BasePayload}

ValidationInputs ==
  NonObjectInputs \cup BuildEvents
  \cup {Event(Str(kind), p) : kind \in {S_BUILD_STARTED, <<"T">>}, p \in MixedPayloads}
  \cup {Event(Null, Null), Event(Str(<<>>), Str(<<>>)), Event(Str(S_BUILD_STARTED), Arr(<<>>)),
        Arr(<<>>), Obj(<<>>)}

InitValid ==
  /\ pc = "valid_ready"
  /\ hostZone = 0
  /\ fnIn \in ValidationInputs
  /\ fnOut = Undef
  /\ IdleText
  /\ IdleHandler
  /\ IdleAux

CallValidateWebhookEvent ==
  /\ pc = "valid_ready"
  /\ pc' = "basic_done"
  /\ fnOut' = validateWebhookEvent(fnIn)
  /\ UNCHANGED <<textVars, hostZone, fnIn, handlerVars, auxVars>>

CallValidateTeamCityEvent ==
  /\ pc = "valid_ready"
  /\ pc' = "validate_done"
  /\ fnOut' = validateTeamCityEvent(fnIn)
  /\ UNCHANGED <<textVars, hostZone, fnIn, handlerVars, auxVars>>

CallSanitizeTeamCityEvent ==
  /\ pc = "valid_ready"
  /\ pc' = "sanitize_done"
  /\ fnOut' = sanitizeTeamCityEvent(fnIn)
  /\ UNCHANGED <<textVars, hostZone, fnIn, handlerVars, auxVars>>

CallIsValidTeamCityWebhookEvent ==
  /\ pc = "valid_ready"
  /\ pc' = "strict_done"
  /\ fnOut' = isValidTeamCityWebhookEvent(fnIn)
  /\ UNCHANGED <<textVars, hostZone, fnIn, handlerVars, auxVars>>

NextValid ==
  \/ CallValidateWebhookEvent
  \/ CallValidateTeamCityEvent
  \/ CallSanitizeTeamCityEvent
  \/ CallIsValidTeamCityWebhookEvent

SpecValid == InitValid /\ [][NextValid]_vars

\* how many of the errors are the 'Missing required field' error of the field
MissingErrorCount(errors, field) ==
  Cardinality({j \in 1..Len(errors) : errors[j] = S_MissingField \o field})

(***************************************************************************)
(* C14: for every event that passes validateWebhookEvent, the result of    *)
(* validateTeamCityEvent holds exactly one 'Missing required field' error  *)
(* for each of id, buildTypeId, number, status, state, webUrl, buildType   *)
(* that is null or undefined, and none for the others; in every result of  *)
(* either validator isValid is true iff the errors list is empty, so that  *)
(* warnings alone never make a result invalid.                             *)
(***************************************************************************)
C14_AllMissingReported ==
  /\ pc \in {"basic_done", "validate_done"} => (fnOut.isValid <=> Len(fnOut.errors) = 0)
  /\ (pc = "validate_done" /\ validateWebhookEvent(fnIn).isValid) =>
       \A i \in 1..Len(requiredFields) :
         MissingErrorCount(fnOut.errors, requiredFields[i])
           = IF IsNullish(Get(Get(fnIn, K_payload), requiredFields[i])) THEN 1 ELSE 0

\* two missing fields are reported together, next to two warnings
C14_Witness ==
  /\ pc = "validate_done"
  /\ fnOut.errors = <<S_MissingField \o K_status, S_MissingField \o K_state>>
  /\ fnOut.warnings = <<S_IdPositive, S_WebUrlString>>
  /\ ~fnOut.isValid

(***************************************************************************)
(* C15: sanitizeTeamCityEvent never fails: for every input, including null, *)
(* undefined, a non-object value and an object whose eventType and payload *)
(* are null, it returns an event without throwing.                         *)
(***************************************************************************)
C15_SanitizeNeverThrows ==
  pc = "sanitize_done" => ~fnOut.threw

\* whether every required field of a sanitized event has its declared type
RequiredFieldsTyped(event) ==
  Bind(Get(event, K_payload), LAMBDA payload :
  Bind(Get(payload, K_buildType), LAMBDA buildType :
    /\ TypeOf(Get(event, K_eventType)) = "string"
    /\ TypeOf(Get(payload, K_id)) = "number"
    /\ \A k \in {K_buildTypeId, K_number, K_status, K_state, K_webUrl, K_statusText} :
         TypeOf(Get(payload, k)) = "string"
    /\ buildType.t = "obj"
    /\ TypeOf(Get(buildType, K_name)) = "string"
    /\ TypeOf(Get(buildType, K_projectName)) = "string"))

(***************************************************************************)
(* C16: for every input object, each required field of the event returned  *)
(* by sanitizeTeamCityEvent has its declared type: eventType, buildTypeId, *)
(* number, status, state, webUrl, statusText, buildType.name and           *)
(* buildType.projectName are strings and id is a number.                   *)
(***************************************************************************)
C16_SanitizedFieldsTyped ==
  (pc = "sanitize_done" /\ fnIn.t = "obj") =>
    /\ ~fnOut.threw
    /\ RequiredFieldsTyped(fnOut.value)

\* what the strict guard is documented to require beyond the lenient guard
FullyValidPayload(obj) ==
  Bind(Get(obj, K_payload), LAMBDA payload :
    /\ payload.t = "obj"
    /\ TypeOf(Get(payload, K_id)) = "number"
    /\ \A k \in {K_buildTypeId, K_number, K_status, K_state, K_webUrl} :
         TypeOf(Get(payload, k)) = "string"
    /\ Get(payload, K_buildType).t = "obj"
    /\ TypeOf(Get(Get(payload, K_buildType), K_name)) = "string"
    /\ TypeOf(Get(Get(payload, K_buildType), K_projectName)) = "string")

(***************************************************************************)
(* C17: isValidTeamCityWebhookEvent(obj) is true iff                       *)
(* isTeamCityWebhookEvent(obj) holds and payload is an object, id is       *)
(* numeric, buildTypeId, number, status, state and webUrl are strings and  *)
(* buildType is an object with string name and projectName; the strict     *)
(* guard never accepts an object that the lenient guard rejects.           *)
(***************************************************************************)
C17_StrictImpliesLenient ==
  pc = "strict_done" =>
    (fnOut = Bool(TRUE) <=> (isTeamCityWebhookEvent(fnIn) /\ FullyValidPayload(fnIn)))

\* whether the event is the full payload but for its lastChanges, which is an object
\* with a number for its count and a list for its changes
OnlyLastChangesVaries(event) ==
  Bind(Get(event, K_payload), LAMBDA payload :
    /\ payload.t = "obj"
    /\ Without(payload, K_lastChanges) = Without(FullPayload, K_lastChanges)
    /\ Get(payload, K_lastChanges).t = "obj"
    /\ Get(Get(payload, K_lastChanges), K_count).t = "num"
    /\ Get(Get(payload, K_lastChanges), K_change).t = "arr")

(***************************************************************************)
(* C18: for a BUILD_FINISHED event with lastChanges present, for every     *)
(* value of count and every length of the change list, the formatter       *)
(* completes and the card holds exactly the field 'Last Change' when count *)
(* is 1, exactly the field 'Changes' with the value "<count> changes,      *)
(* latest by <username of change[0]>" when count is above 1, and neither   *)
(* when count is 0 or less; it never holds both.                           *)
(***************************************************************************)
C18_ChangesByCount ==
  (pc = "formatter_done" /\ IsKind(fnIn, S_BUILD_FINISHED) /\ OnlyLastChangesVaries(fnIn)) =>
    /\ ~fnOut.threw
    /\ Bind(Get(Get(fnIn, K_payload), K_lastChanges), LAMBDA lastChanges :
       Bind(FieldNames(fnOut.value), LAMBDA names :
         IF Get(lastChanges, K_count).n = 1
         THEN S_LastChange \in names /\ S_Changes \notin names
         ELSE IF Get(lastChanges, K_count).n > 1
         THEN /\ S_Changes \in names
              /\ S_LastChange \notin names
              /\ FieldValue(fnOut.value, S_Changes)
                   = NumToStr(Get(lastChanges, K_count).n) \o S_changesLatestBy
                     \o ToStr(Get(Get(Get(lastChanges, K_change), <<"0">>), K_username))
         ELSE S_LastChange \notin names /\ S_Changes \notin names))

(***************************************************************************)
(* C19: in the card of a BUILD_INTERRUPTED event the field 'Elapsed Time'  *)
(* is formatElapsedTime(running-info.elapsedSeconds) whenever running-info *)
(* is present, else calculateDuration(startDate, canceledInfo.timestamp)   *)
(* when canceledInfo is present and that duration is computable, else it   *)
(* is left out; running-info alone is enough for the field.                *)
(***************************************************************************)
C19_ElapsedFromRunningInfo ==
  (pc = "formatter_done" /\ IsKind(fnIn, S_BUILD_INTERRUPTED) /\ ~fnOut.threw) =>
    Bind(Get(fnIn, K_payload), LAMBDA payload :
    Bind(FieldNames(fnOut.value), LAMBDA names :
      IF hasRunningInfo(payload)
      THEN /\ S_ElapsedTime \in names
           /\ FieldValue(fnOut.value, S_ElapsedTime)
                = formatElapsedTime(Get(Get(payload, K_runningInfo), K_elapsedSeconds))
      ELSE IF hasCanceledInfo(payload)
              /\ calculateDuration(Get(payload, K_startDate),
                                   Get(Get(payload, K_canceledInfo), K_timestamp), hostZone) # Null
      THEN /\ S_ElapsedTime \in names
           /\ Str(FieldValue(fnOut.value, S_ElapsedTime))
                = calculateDuration(Get(payload, K_startDate),
                                    Get(Get(payload, K_canceledInfo), K_timestamp), hostZone)
      ELSE S_ElapsedTime \notin names))

(***************************************************************************)
(* C20: in every card of the three specialized formatters a timestamp      *)
(* field ('Started At', 'Finished At', 'Canceled At') holds a formatted    *)
(* date or is left out: none has the value 'Invalid date' or the raw       *)
(* timestamp string.                                                       *)
(***************************************************************************)
C20_NoInvalidDateShown ==
  (pc = "formatter_done" /\ ~fnOut.threw) =>
    \A i \in DOMAIN fnOut.value.fields :
      fnOut.value.fields[i].name \in {S_StartedAt, S_FinishedAt, S_CanceledAt} =>
        /\ fnOut.value.fields[i].value # S_InvalidDate
        /\ ~MatchesTimestamp(fnOut.value.fields[i].value)

(***************************************************************************)
(* The generic walk: what the claims about it are stated in.               *)
(***************************************************************************)
\* the name the card gives the field of the key path `fieldName` (dotted)
CardName(fieldName) == formatEmbedFieldName(Str(formatFieldName(fieldName)))

RECURSIVE KeyPathNames(_, _, _)
\* the dotted names of the key paths of at most n keys below v
KeyPathNames(v, prefix, n) ==
  IF n = 0 \/ v.t \notin {"obj", "arr"} THEN {}
  ELSE UNION {Bind(IF Len(prefix) > 0 THEN prefix \o <<".">> \o e.k ELSE e.k,
                   LAMBDA name : {name} \cup KeyPathNames(e.v, name, n - 1)) :
              e \in Range(EntriesOf(v))}

RECURSIVE CutObject(_, _)
\* the object `obj`, met by the walk at depth `depth`, with every object that the walk
\* would have to enter at a depth beyond MAX_DEPTH replaced by null
CutObject(obj, depth) ==
  LET CutChild(v) == IF v.t = "obj" /\ ~isSimpleObject(v)
                     THEN (IF depth + 1 > MAX_DEPTH THEN Null ELSE CutObject(v, depth + 1))
                     ELSE v
  IN CASE obj.t = "obj" ->
            [obj EXCEPT !.e = [i \in 1..Len(obj.e) |-> Entry(obj.e[i].k, CutChild(obj.e[i].v))]]
       [] obj.t = "arr" -> Arr([i \in 1..Len(obj.a) |-> CutChild(obj.a[i])])
       [] OTHER -> obj

\* the field the catch block of buildWebSocketEventEmbed adds
PayloadErrorField == [name |-> S_Payload, value |-> S_ErrorProcessing, inline |-> FALSE]

\* fnIn is an object event whose payload the generic formatter walks
WalksPayload ==
  /\ fnIn.t = "obj"
  /\ Get(fnIn, K_payload).t \in {"obj", "arr"}

(***************************************************************************)
(* C21: the generic walk never enters an object at a depth beyond 2 (the   *)
(* payload is depth 0): the card is the card of the same event with every  *)
(* object below that depth taken out, so deeper content is dropped with no *)
(* error field, and every field of the card is named after a key path of   *)
(* at most three keys below the payload.                                   *)
(***************************************************************************)
C21_WalkDepthAtMostTwo ==
  (pc = "generic_done" /\ WalksPayload) =>
    Bind(Get(fnIn, K_payload), LAMBDA payload :
      /\ fnOut = buildWebSocketEventEmbed(With(fnIn, K_payload, CutObject(payload, 0)), hostZone)
      /\ ~fnOut.threw =>
           \A i \in DOMAIN fnOut.value.fields :
             \/ fnOut.value.fields[i] = PayloadErrorField
             \/ \E name \in KeyPathNames(payload, <<>>, MAX_DEPTH + 1) :
                  fnOut.value.fields[i].name = CardName(name))

\* a payload with objects four deep: the card shows the number at z.b.a and nothing of
\* z.b.c, and has no error field
C21_Witness ==
  /\ pc = "generic_done"
  /\ WalksPayload
  /\ Get(fnIn, K_payload) = Obj(<<Entry(<<"z">>, DeepObject)>>)
  /\ ~fnOut.threw
  /\ [name |-> CardName(<<"z", ".", "b", ".", "a">>), value |-> <<"2">>, inline |-> FALSE]
       \in Range(fnOut.value.fields)
  /\ Len(fnOut.value.fields) = 2
  /\ PayloadErrorField \notin Range(fnOut.value.fields)

\* whether k is one of the priority keys
IsPriorityKey(k) == k \in Range(priorityFields)

RECURSIVE PriorityFirst(_)
\* obj with the priority keys moved in front of the other keys, both groups in their
\* key order, in obj and in every object the walk enters below it
PriorityFirst(obj) ==
  IF obj.t # "obj" THEN obj
  ELSE LET Child(e) == Entry(e.k, IF e.v.t = "obj" /\ ~isSimpleObject(e.v)
                                  THEN PriorityFirst(e.v) ELSE e.v)
           sorted == SelectSeq(obj.e, LAMBDA e : IsPriorityKey(e.k))
                     \o SelectSeq(obj.e, LAMBDA e : ~IsPriorityKey(e.k))
       IN [obj EXCEPT !.e = [i \in 1..Len(sorted) |-> Child(sorted[i])]]

\* the card names of the payload's own keys that are, or are not, priority keys
OwnNames(payload, priority) ==
  {CardName(e.k) : e \in {x \in Range(EntriesOf(payload)) : IsPriorityKey(x.k) = priority}}

\* a value the walk shows in one field of its own: a number, a boolean or a non-empty string
IsShownPrimitive(v) == v.t \in {"num", "bool"} \/ (v.t = "str" /\ Len(v.s) > 0)

(***************************************************************************)
(* C22: within one walked object the fields of the priority keys (id,      *)
(* number, status, state, statusText, buildType, agent) are added before   *)
(* the fields of the other keys, the priority keys in their key order: the *)
(* card is the card of the event with the keys so ordered, no field of a   *)
(* non-priority key of the payload stands before a field of a priority key *)
(* of the payload, and every priority key of the payload with a primitive  *)
(* value has its field on the card however many other keys there are.      *)
(***************************************************************************)
C22_PriorityKeysFirst ==
  (pc = "generic_done" /\ WalksPayload) =>
    Bind(Get(fnIn, K_payload), LAMBDA payload :
      /\ fnOut = buildWebSocketEventEmbed(With(fnIn, K_payload, PriorityFirst(payload)), hostZone)
      /\ ~fnOut.threw =>
           Bind(fnOut.value.fields, LAMBDA fields :
           Bind(OwnNames(payload, TRUE), LAMBDA priorityNames :
           Bind(OwnNames(payload, FALSE), LAMBDA otherNames :
             /\ \A i, j \in DOMAIN fields :
                  (i < j /\ fields[i].name \in otherNames \ priorityNames)
                  => fields[j].name \notin priorityNames \ otherNames
             /\ PayloadErrorField \notin Range(fields) =>
                  \A e \in Range(EntriesOf(payload)) :
                    (IsPriorityKey(e.k) /\ IsShownPrimitive(e.v))
                    => \E i \in DOMAIN fields : fields[i].name = CardName(e.k)))))

\* twenty other keys stand before the payload's id: the card opens with the id and has
\* no room for the twentieth
C22_Witness ==
  /\ pc = "generic_done"
  /\ WalksPayload
  /\ Get(fnIn, K_payload) = Obj(Filler(MaxWide) \o <<Entry(K_id, Num(1))>>)
  /\ ~fnOut.threw
  /\ Len(fnOut.value.fields) = MAX_FIELDS
  /\ fnOut.value.fields[1].name = CardName(K_id)
  /\ fnOut.value.fields[2].name = CardName(<<"f", "1">>)
  /\ \A i \in DOMAIN fnOut.value.fields :
       fnOut.value.fields[i].name # CardName(<<"f">> \o NatToStr(MaxWide))

RECURSIVE OwnCopies(_)
\* the value v with every back reference left out (null in its place) and every object
\* that several keys refer to present as an object of its own under each of them
OwnCopies(v) ==
  CASE v.t = "cycle" -> Null
    [] v.t = "obj" -> Obj([i \in 1..Len(v.e) |-> Entry(v.e[i].k, OwnCopies(v.e[i].v))])
    [] v.t = "arr" -> Arr([i \in 1..Len(v.a) |-> OwnCopies(v.a[i])])
    [] OTHER -> v

\* whether v holds an object that several keys refer to
RECURSIVE HoldsShared(_)
HoldsShared(v) ==
  CASE v.t = "obj" -> "shared" \in DOMAIN v \/ \E i \in 1..Len(v.e) : HoldsShared(v.e[i].v)
    [] v.t = "arr" -> \E i \in 1..Len(v.a) : HoldsShared(v.a[i])
    [] OTHER -> FALSE

(***************************************************************************)
(* C23: the cycle guard of the generic walk skips an object only when the  *)
(* object is on the current visit path. A reference back to an enclosing   *)
(* object is skipped without error, and an object that is not simple and   *)
(* that two sibling keys refer to is rendered under both keys: the card is *)
(* the card of the payload with the back references left out and with a    *)
(* copy of its own of the shared object under each key.                    *)
(***************************************************************************)
C23_GuardOnlyOnPath ==
  (pc = "generic_done" /\ WalksPayload) =>
    fnOut = buildWebSocketEventEmbed(With(fnIn, K_payload, OwnCopies(Get(fnIn, K_payload))),
                                     hostZone)

\* how the claims say a boolean is shown
YesNo(v) == IF v.b THEN S_Yes ELSE S_No

\* whether the key's name holds one of the words that formatPrimitiveValue looks for
NamedLike(key, words) == \E w \in words : Includes(ToLowerCase(key), w)

(***************************************************************************)
(* C24: every boolean the generic formatter meets is shown as "[check] Yes" *)
(* (true) or "[cross] No" (false), whatever the name of its key, also when  *)
(* the name holds "url", "href", "date" or "time": the field of a boolean   *)
(* key of the payload has that value, and the field of an array of         *)
(* booleans lists them so.                                                 *)
(***************************************************************************)
C24_BooleansAsYesNo ==
  (pc = "generic_done" /\ WalksPayload /\ ~fnOut.threw) =>
    \A e \in Range(EntriesOf(Get(fnIn, K_payload))) :
      \A i \in DOMAIN fnOut.value.fields :
        fnOut.value.fields[i].name = CardName(e.k) =>
          /\ e.v.t = "bool" => fnOut.value.fields[i].value = YesNo(e.v)
          /\ (/\ e.v.t = "arr"
              /\ Len(e.v.a) \in 1..MAX_ARRAY_ITEMS
              /\ \A n \in DOMAIN e.v.a : e.v.a[n].t = "bool")
             => fnOut.value.fields[i].value
                  = formatEmbedFieldValue(Str(Join([n \in DOMAIN e.v.a |-> YesNo(e.v.a[n])],
                                                   S_newline)))

(***************************************************************************)
(* SpecWalk: one call of buildWebSocketEventEmbed taken step by step, one  *)
(* step for each invocation of processObjectFields and for each key of its *)
(* two loops. walk.stack is the call stack, innermost call first in line;  *)
(* walk.b the card under construction with the visited set; walk.calls the *)
(* invocations of processObjectFields so far, in order.                    *)
(***************************************************************************)
\* the widths of the payloads walked step by step
WalkWidths == {0, MAX_FIELDS - 1, MaxWide}

WalkInputs ==
  NonObjectInputs
  \cup {Event(Str(<<"T">>), Obj(Filler(n) \o tail)) :
          n \in WalkWidths, tail \in PayloadTails \cup ReferenceTails}
  \cup {Event(Str(<<"T">>), p) : p \in {Undef, Null, Num(1), Arr(<<Num(1)>>), Cycle, OverfullPayload}}

\* processObjectFields(embed, obj, prefix, depth, visited) has been called and has not
\* begun; `id` is the identity of obj
CallFrame(obj, id, prefix, depth, path) ==
  [kind |-> "call", obj |-> obj, id |-> id, prefix |-> prefix, depth |-> depth, path |-> path]

\* processObjectFields is inside its loops: `todo` are the positions of the keys still
\* to come, the priority keys first, each with whether the field count is looked at
KeysFrame(obj, id, todo, prefix, depth, path) ==
  [kind |-> "keys", obj |-> obj, id |-> id, todo |-> todo, prefix |-> prefix,
   depth |-> depth, path |-> path]

\* the two guards at the head of processObjectFields, without the cycle guard
SkipsWalk_DepthOnly(b, id, depth) == depth > MAX_DEPTH

\* the two guards at the head of processObjectFields
SkipsWalk(b, id, depth) == depth > MAX_DEPTH \/ id \in b.visited

\* the key positions of `es` in the order the two loops take them
KeyOrder(es) ==
  Bind([i \in 1..Len(es) |-> i], LAMBDA all :
    [i \in 1..Len(SelectSeq(all, LAMBDA n : IsPriorityKey(es[n].k))) |->
       [i |-> SelectSeq(all, LAMBDA n : IsPriorityKey(es[n].k))[i], counted |-> FALSE]]
    \o [i \in 1..Len(SelectSeq(all, LAMBDA n : ~IsPriorityKey(es[n].k))) |->
       [i |-> SelectSeq(all, LAMBDA n : ~IsPriorityKey(es[n].k))[i], counted |-> TRUE]])

InitWalk ==
  /\ pc = "walk_ready"
  /\ hostZone = 0
  /\ fnIn \in WalkInputs
  /\ fnOut = Undef
  /\ walk = NoWalk
  /\ flights = NoFlights
  /\ IdleText
  /\ IdleHandler

\* buildWebSocketEventEmbed up to the call of processObjectFields; an event with no
\* payload to walk is answered at once
StartWalk ==
  /\ pc = "walk_ready"
  /\ IF /\ Truthy(fnIn)
        /\ TypeOf(fnIn) = "object"
        /\ Truthy(Get(fnIn, K_payload))
        /\ TypeOf(Get(fnIn, K_payload)) = "object"
     THEN /\ walk' = [stack |-> <<CallFrame(WalkRoot(fnIn), Identity(WalkRoot(fnIn), <<>>),
                                            <<>>, 0, <<>>)>>,
                      b |-> NewGenericEmbed(fnIn),
                      calls |-> <<>>]
          /\ pc' = "walking"
          /\ UNCHANGED fnOut
     ELSE /\ fnOut' = buildWebSocketEventEmbed(fnIn, hostZone)
          /\ pc' = IF fnOut'.threw THEN "walk_thrown" ELSE "walk_returned"
          /\ UNCHANGED walk
  /\ UNCHANGED <<textVars, hostZone, fnIn, handlerVars, flights>>

\* an invocation of processObjectFields begins: it returns at once at the depth guard,
\* at the cycle guard or on a full card, and else sets out on its keys
EnterObject ==
  /\ pc = "walking"
  /\ ~walk.b.threw
  /\ Len(walk.stack) > 0
  /\ Head(walk.stack).kind = "call"
  /\ \E f \in {Head(walk.stack)} :
       IF SkipsWalk(walk.b, f.id, f.depth)
       THEN walk' = [walk EXCEPT !.stack = Tail(@),
                                 !.calls = Append(@, [id |-> f.id, depth |-> f.depth,
                                                      walked |-> FALSE])]
       ELSE walk' = [walk EXCEPT
                       !.b.visited = @ \cup {f.id},
                       !.calls = Append(@, [id |-> f.id, depth |-> f.depth, walked |-> TRUE]),
                       !.stack = IF Len(walk.b.embed.fields) >= MAX_FIELDS THEN Tail(@)
                                 ELSE <<KeysFrame(f.obj, f.id, KeyOrder(EntriesOf(f.obj)),
                                                  f.prefix, f.depth, f.path)>> \o Tail(@)]
  /\ UNCHANGED <<pc, textVars, hostZone, fnVars, handlerVars, flights>>

\* one key of one of the two loops: processField, which adds a field, or calls
\* processObjectFields on an object that is not simple, or does nothing
StepKey ==
  /\ pc = "walking"
  /\ ~walk.b.threw
  /\ Len(walk.stack) > 0
  /\ Head(walk.stack).kind = "keys"
  /\ Len(Head(walk.stack).todo) > 0
  /\ \E f \in {Head(walk.stack)} :
     \E next \in {Head(f.todo)} :
     \E entry \in {EntriesOf(f.obj)[next.i]} :
     \E rest \in {<<[f EXCEPT !.todo = Tail(@)]>> \o Tail(walk.stack)} :
       IF next.counted /\ Len(walk.b.embed.fields) >= MAX_FIELDS
       THEN walk' = [walk EXCEPT !.stack = rest]
       ELSE IF entry.v.t = "cycle" \/ (entry.v.t = "obj" /\ ~isSimpleObject(entry.v))
       THEN \E fieldName \in {IF Len(f.prefix) > 0 THEN f.prefix \o <<".">> \o entry.k
                              ELSE entry.k} :
              walk' = [walk EXCEPT
                         !.stack =
                           <<IF entry.v.t = "cycle"
                             \* obj[key] is obj itself
                             THEN CallFrame(f.obj, f.id, fieldName, f.depth + 1, f.path)
                             ELSE CallFrame(entry.v, Identity(entry.v, Append(f.path, next.i)),
                                            fieldName, f.depth + 1, Append(f.path, next.i))>>
                           \o rest]
       ELSE walk' = [walk EXCEPT
                       !.stack = rest,
                       !.b = processField(@, entry, f.prefix, f.depth, Append(f.path, next.i),
                                          hostZone)]
  /\ UNCHANGED <<pc, textVars, hostZone, fnVars, handlerVars, flights>>

\* both loops are through: the invocation returns
LeaveObject ==
  /\ pc = "walking"
  /\ ~walk.b.threw
  /\ Len(walk.stack) > 0
  /\ Head(walk.stack).kind = "keys"
  /\ Len(Head(walk.stack).todo) = 0
  /\ walk' = [walk EXCEPT !.stack = Tail(@)]
  /\ UNCHANGED <<pc, textVars, hostZone, fnVars, handlerVars, flights>>

\* the walk has returned to buildWebSocketEventEmbed, which returns the card
ReturnEmbed ==
  /\ pc = "walking"
  /\ ~walk.b.threw
  /\ Len(walk.stack) = 0
  /\ fnOut' = AfterWalk(walk.b)
  /\ pc' = "walk_returned"
  /\ UNCHANGED <<textVars, hostZone, fnIn, handlerVars, walk, flights>>

\* addFields threw: the exception leaves every invocation under way and reaches the
\* catch block, whose own addFields adds the error field or throws in its turn
CatchWalkError ==
  /\ pc = "walking"
  /\ walk.b.threw
  /\ fnOut' = AfterWalk(walk.b)
  /\ pc' = IF fnOut'.threw THEN "walk_thrown" ELSE "walk_returned"
  /\ walk' = [walk EXCEPT !.stack = <<>>]
  /\ UNCHANGED <<textVars, hostZone, fnIn, handlerVars, flights>>

NextWalk ==
  \/ StartWalk
  \/ EnterObject
  \/ StepKey
  \/ LeaveObject
  \/ ReturnEmbed
  \/ CatchWalkError

\* the call runs on until it ends
SpecWalk == InitWalk /\ [][NextWalk]_vars /\ WF_vars(NextWalk)

RECURSIVE SumSeq(_)
\* the sum of a sequence of numbers
SumSeq(numbers) == IF Len(numbers) = 0 THEN 0 ELSE Head(numbers) + SumSeq(Tail(numbers))

RECURSIVE WalkWork(_, _)
\* The most steps an invocation of processObjectFields on obj at depth `depth` takes,
\* from the step that begins it to the step that ends it, with the invocations below it:
\* one step for each key, and the work of the invocation a key leads to. The count
\* rests on the depth guard alone.
WalkWork(obj, depth) ==
  IF depth > MAX_DEPTH THEN 1
  ELSE 2 + SumSeq([i \in 1..Len(EntriesOf(obj)) |->
                     Bind(EntriesOf(obj)[i].v, LAMBDA v :
                       1 + (IF v.t = "cycle" THEN WalkWork(obj, depth + 1)
                            ELSE IF v.t = "obj" /\ ~isSimpleObject(v) THEN WalkWork(v, depth + 1)
                            ELSE 0))])

\* the most invocations of processObjectFields that obj at depth `depth` leads to
RECURSIVE MaxCalls(_, _)
MaxCalls(obj, depth) ==
  IF depth > MAX_DEPTH THEN 1
  ELSE 1 + SumSeq([i \in 1..Len(EntriesOf(obj)) |->
                     Bind(EntriesOf(obj)[i].v, LAMBDA v :
                       IF v.t = "cycle" THEN MaxCalls(obj, depth + 1)
                       ELSE IF v.t = "obj" /\ ~isSimpleObject(v) THEN MaxCalls(v, depth + 1)
                       ELSE 0)])

\* the steps a frame of the stack still has before it
FrameWork(f) ==
  IF f.kind = "call" THEN WalkWork(f.obj, f.depth)
  ELSE 1 + SumSeq([n \in 1..Len(f.todo) |->
                     Bind(EntriesOf(f.obj)[f.todo[n].i].v, LAMBDA v :
                       1 + (IF v.t = "cycle" THEN WalkWork(f.obj, f.depth + 1)
                            ELSE IF v.t = "obj" /\ ~isSimpleObject(v)
                            THEN WalkWork(v, f.depth + 1)
                            ELSE 0))])

\* whether buildWebSocketEventEmbed walks the payload of fnIn
WalkBegins ==
  /\ Truthy(fnIn)
  /\ TypeOf(fnIn) = "object"
  /\ Truthy(Get(fnIn, K_payload))
  /\ TypeOf(Get(fnIn, K_payload)) = "object"

\* a number that every step of the call lowers: the steps the call still has before it
WalkRank ==
  CASE pc = "walk_ready" -> 2 + (IF WalkBegins THEN WalkWork(WalkRoot(fnIn), 0) ELSE 0)
    [] pc = "walking" -> 1 + SumSeq([n \in 1..Len(walk.stack) |-> FrameWork(walk.stack[n])])
    [] OTHER -> 0

\* the call has ended: it has returned a card, or an exception has left it
WalkEnded == pc \in {"walk_returned", "walk_thrown"}

\* the call has not ended and has a step to take
WalkCanStep ==
  \/ pc = "walk_ready"
  \/ /\ pc = "walking"
     /\ \/ walk.b.threw
        \/ Len(walk.stack) = 0
        \/ Head(walk.stack).kind = "call"
        \/ Head(walk.stack).kind = "keys"

\* the invocations of processObjectFields that got past the depth and cycle guards
WalkedCalls == SelectSeq(walk.calls, LAMBDA c : c.walked)

SendStarted == Len(sink) + rejected > 0

(***************************************************************************)
(* C26: for a delivery that passes the basic validation the handler's      *)
(* steps come in the order card built, 200 sent, send of the card begun.   *)
(* The 200 goes out only once the card is there, built in one step from    *)
(* the body, and before the channel's send has been called at all; the     *)
(* card is handed to the channel only after the 200; and a response that   *)
(* is out is never changed afterwards, whatever becomes of the send.       *)
(***************************************************************************)
C26_AckBeforeSend ==
  /\ [](/\ 200 \in Range(response) =>
             /\ PassesBasic(body)
             /\ handlerEmbed # Undef
             /\ BuildHandlerEmbed(body, hostZone) = Returned(handlerEmbed)
        /\ pc = "acked" => ~SendStarted
        /\ (handlerEmbed # Undef /\ SendStarted) => 200 \in Range(response)
        /\ handlerEmbed \in Range(sink) => response = <<200>>)
  /\ [][/\ response # <<>> => response' = response
        /\ (response = <<>> /\ response' = <<200>>) => (pc = "built" /\ ~SendStarted)]_vars

\* the card was built and acknowledged with 200, the channel then rejected the send and
\* the error card too, and the handler ended with the response still 200
C26_Witness ==
  /\ pc = "done"
  /\ PassesBasic(body)
  /\ handlerEmbed # Undef
  /\ response = <<200>>
  /\ rejected = 2
  /\ sink = <<>>

(***************************************************************************)
(* The calls of the channel's send for one delivery.                       *)
(***************************************************************************)
\* how often the channel's send has been called for this delivery
SendCalls == Len(sink) + rejected

(***************************************************************************)
(* C27, as stated: for a delivery that passes the basic validation the     *)
(* handler calls the channel's send exactly once, whether the send         *)
(* succeeds or fails.                                                      *)
(***************************************************************************)
C27_AsStated ==
  (pc = "done" /\ PassesBasic(body)) => SendCalls = 1

(***************************************************************************)
(* C27, amended: for a delivery that passes the basic validation the       *)
(* handler calls the channel's send at most twice, each time with one      *)
(* card. With no text channel it does not call it. Otherwise it calls it   *)
(* once with the delivery's card when that card was built, and once more,  *)
(* with the error card, when building the card or sending it failed and    *)
(* the error card itself could be built.                                   *)
(***************************************************************************)
C27_SendCalls ==
  /\ SendCalls <= 2
  /\ \A n \in DOMAIN sink :
       \/ sink[n] = handlerEmbed
       \/ FallbackEmbed(body) = Returned(sink[n])
  /\ (pc = "done" /\ PassesBasic(body)) =>
       Bind(IF ErrorDescriptionFits(body) THEN 1 ELSE 0, LAMBDA errorCards :
         /\ ~chanOk => SendCalls = 0
         /\ (chanOk /\ handlerEmbed = Undef) => SendCalls = errorCards
         /\ (chanOk /\ handlerEmbed # Undef) =>
              \/ sink = <<handlerEmbed>> /\ rejected = 0
              \/ /\ rejected >= 1
                 /\ handlerEmbed \notin Range(sink)
                 /\ SendCalls = 1 + errorCards)

\* the send of the delivery's card was rejected, and the handler called send a second
\* time, with the error card, which the channel took
C27_Witness ==
  /\ pc = "done"
  /\ PassesBasic(body)
  /\ chanOk
  /\ handlerEmbed # Undef
  /\ rejected = 1
  /\ Len(sink) = 1
  /\ FallbackEmbed(body) = Returned(sink[1])
  /\ sink[1] # handlerEmbed

(***************************************************************************)
(* The response of one request.                                            *)
(***************************************************************************)
\* the steps the handler still has before it, at most
HandlerRank ==
  CASE pc = "received" -> 6
    [] pc = "validated" -> 5
    [] pc = "built" -> 4
    [] pc = "acked" -> 3
    [] pc = "caught" -> 2
    [] pc = "fallback_done" -> 1
    [] pc = "done" -> 0

\* the handler has not ended and has a step to take
HandlerCanStep ==
  \/ pc \in {"received", "validated", "built", "caught", "fallback_done"}
  \/ pc = "acked" /\ (chanOk \/ ~chanOk)

(***************************************************************************)
(* C29: every request gets exactly one response on every path through the *)
(* handler. No path sends two; the handler goes on until it has ended, in  *)
(* at most six steps, and has then sent one: 400 exactly when the basic    *)
(* validation fails, 200 exactly when a card was built, and 500 exactly    *)
(* when an exception came before the 200.                                  *)
(***************************************************************************)
C29_ExactlyOneResponse ==
  /\ [](/\ Len(response) <= 1
        /\ pc \in {"received", "validated", "built", "acked", "caught", "fallback_done", "done"}
        /\ pc = "done" \/ HandlerCanStep
        /\ pc = "done" =>
             /\ Len(response) = 1
             /\ response[1] \in {400, 200, 500}
             /\ response = <<400>> <=> ~PassesBasic(body)
             /\ response = <<200>> <=>
                  (PassesBasic(body) /\ BuildHandlerEmbed(body, hostZone) = Returned(handlerEmbed))
             /\ response = <<500>> <=>
                  (PassesBasic(body) /\ BuildHandlerEmbed(body, hostZone).threw
                     /\ handlerEmbed = Undef))
  /\ [][HandlerRank' < HandlerRank]_vars

\* building the card threw before the 200: the error card went to the channel and the
\* request was answered 500, once
C29_Witness ==
  /\ pc = "done"
  /\ PassesBasic(body)
  /\ BuildHandlerEmbed(body, hostZone).threw
  /\ Len(sink) = 1
  /\ response = <<500>>

(***************************************************************************)
(* The TeamCity validation against the dispatch.                           *)
(***************************************************************************)
\* the event is of one of the three kinds that have a formatter
IsKnownKind(event) == \E kind \in KnownKinds : IsKind(event, kind)

(***************************************************************************)
(* C30: every event that validateTeamCityEvent accepts and whose eventType *)
(* is BUILD_STARTED, BUILD_FINISHED or BUILD_INTERRUPTED gets a            *)
(* specialized card from createTeamCityEmbed, never the null of no match   *)
(* that sends the handler to the generic builder.                          *)
(***************************************************************************)
C30_ValidatedKnownKindGetsCard ==
  (pc = "dispatch_done" /\ IsKnownKind(fnIn) /\ validateTeamCityEvent(fnIn).isValid) =>
    /\ ~fnOut.threw
    /\ Truthy(fnOut.value)
    /\ fnOut.value.t = "embed"

(***************************************************************************)
(* SpecFlights: several deliveries in flight at once. A handler runs       *)
(* without interruption from the request to its first await, and from the  *)
(* settling of an awaited send to the next await or to its end; between    *)
(* these the handlers of other deliveries run.                             *)
(***************************************************************************)
\* the deliveries in flight at once
NFlights == 2

\* the last element of a sequence that has one
Last(seq) == seq[Len(seq)]
\* seq goes on from the sequence `start`
IsPrefix(start, seq) == Len(start) <= Len(seq) /\ SubSeq(seq, 1, Len(start)) = start

FlightBodies ==
  {Obj(<<>>),
   Event(Str(<<"T">>), Obj(<<Entry(<<"a">>, Num(1))>>)),
   Event(Str(<<"U">>), Obj(<<Entry(K_id, Num(2)), Entry(<<"b">>, Str(<<"x">>))>>)),
   Event(Str(S_BUILD_STARTED), PayloadWith({}))}

\* a delivery as it arrives: `let embed = null`, no response, nothing handed to the channel
NewFlight(reqBody) ==
  [pc |-> "received", body |-> reqBody, embed |-> Null, response |-> <<>>,
   calls |-> <<>>, taken |-> <<>>, turn |-> 0]

\* the deliveries whose handler has built a card
BuiltFlights == {d \in DOMAIN flights : flights[d].embed # Null}

\* the card built most recently by any handler, if there is one
LastBuilt ==
  IF BuiltFlights = {} THEN Null
  ELSE flights[CHOOSE d \in BuiltFlights :
                 \A o \in BuiltFlights : flights[o].turn <= flights[d].turn].embed

\* the card of a delivery, were the builders to go on from the card built before
\* instead of from a new EmbedBuilder
FlightCard_SharedBuilder(reqBody, hostTz, lastBuilt) ==
  Bind(BuildHandlerEmbed(reqBody, hostTz), LAMBDA built :
    IF built.threw \/ lastBuilt = Null THEN built
    ELSE Returned([built.value EXCEPT !.fields = lastBuilt.fields \o @]))

\* the card of a delivery: `let embed` is the handler's own, and every builder starts
\* from a new EmbedBuilder
FlightCard(reqBody, hostTz, lastBuilt) == BuildHandlerEmbed(reqBody, hostTz)

\* if (!res.headersSent) res.status(500): the end of the catch block
FlightRespondError(f) ==
  [f EXCEPT !.response = IF Len(@) = 0 THEN Append(@, 500) ELSE @, !.pc = "done"]

\* the catch block up to its await: the error card is built and handed to the channel
FlightCatch(f, chan) ==
  Bind(FallbackEmbed(f.body), LAMBDA fallbackEmbed :
    IF fallbackEmbed.threw \/ ~chan THEN FlightRespondError(f)
    ELSE [f EXCEPT !.calls = Append(@, fallbackEmbed.value), !.pc = "await_fallback"])

\* the handler from the request to its first await, or to its end
FlightHandle(f, hostTz, chan, lastBuilt, turn) ==
  IF ~validateWebhookEvent(f.body).isValid
  THEN [f EXCEPT !.response = Append(@, 400), !.pc = "done"]
  ELSE Bind(FlightCard(f.body, hostTz, lastBuilt), LAMBDA built :
         IF built.threw THEN FlightCatch(f, chan)
         ELSE Bind([f EXCEPT !.embed = built.value, !.turn = turn,
                             !.response = Append(@, 200)],
                   LAMBDA acked :
                     IF chan
                     THEN [acked EXCEPT !.calls = Append(@, built.value), !.pc = "await_send"]
                     ELSE [acked EXCEPT !.pc = "done"]))

InitFlights ==
  /\ pc = "serving"
  /\ hostZone = 0
  /\ chanOk \in BOOLEAN
  /\ flights \in [1..NFlights -> {NewFlight(reqBody) : reqBody \in FlightBodies}]
  /\ walk = NoWalk
  /\ body = Undef
  /\ handlerEmbed = Undef
  /\ response = <<>>
  /\ sink = <<>>
  /\ rejected = 0
  /\ IdleText
  /\ IdleFn

\* the handler of delivery d runs from the request to its first await
Handle(d) ==
  /\ flights[d].pc = "received"
  /\ flights' = [flights EXCEPT
                   ![d] = FlightHandle(@, hostZone, chanOk, LastBuilt, Cardinality(BuiltFlights) + 1)]
  /\ UNCHANGED <<pc, textVars, fnVars, hostZone, handlerVars, walk>>

\* the send of delivery d's card settles: the channel takes the card, or the send is
\* rejected and the handler goes on in its catch block
SettleSend(d) ==
  /\ flights[d].pc = "await_send"
  /\ \E ok \in BOOLEAN :
       IF ok
       THEN /\ flights' = [flights EXCEPT ![d].taken = Append(@, Last(flights[d].calls)),
                                          ![d].pc = "done"]
            /\ sink' = Append(sink, Last(flights[d].calls))
            /\ UNCHANGED rejected
       ELSE /\ flights' = [flights EXCEPT ![d] = FlightCatch(@, chanOk)]
            /\ rejected' = rejected + 1
            /\ UNCHANGED sink
  /\ UNCHANGED <<pc, textVars, fnVars, hostZone, body, handlerEmbed, response, chanOk, walk>>

\* the send of delivery d's error card settles; a rejection is only logged
SettleFallback(d) ==
  /\ flights[d].pc = "await_fallback"
  /\ \E ok \in BOOLEAN :
       IF ok
       THEN /\ flights' = [flights EXCEPT
                             ![d] = FlightRespondError(
                                      [@ EXCEPT !.taken = Append(@, Last(flights[d].calls))])]
            /\ sink' = Append(sink, Last(flights[d].calls))
            /\ UNCHANGED rejected
       ELSE /\ flights' = [flights EXCEPT ![d] = FlightRespondError(@)]
            /\ rejected' = rejected + 1
            /\ UNCHANGED sink
  /\ UNCHANGED <<pc, textVars, fnVars, hostZone, body, handlerEmbed, response, chanOk, walk>>

NextFlights ==
  \/ \E d \in DOMAIN flights : Handle(d)
  \/ \E d \in DOMAIN flights : SettleSend(d)
  \/ \E d \in DOMAIN flights : SettleFallback(d)

SpecFlights == InitFlights /\ [][NextFlights]_vars

\* the cards the handler of a delivery with this body can hand to the channel
OwnCards(reqBody) ==
  {o.value : o \in {o \in {BuildHandlerEmbed(reqBody, hostZone), FallbackEmbed(reqBody)} :
                      ~o.threw}}

(***************************************************************************)
(* C28: with several deliveries in flight at once, their handlers          *)
(* interleaved at the awaits on the channel's send, the card sent for a    *)
(* delivery is determined by that delivery's body alone. Whatever the      *)
(* other deliveries are and however far they have got, the first card a    *)
(* handler hands to the channel is the card built from its own body, a     *)
(* second one is the error card for its own body, the channel is given     *)
(* nothing else, and a card handed over is not changed afterwards.         *)
(***************************************************************************)
C28_CardFromOwnBodyOnly ==
  /\ [](/\ \A d \in DOMAIN flights :
             Bind(flights[d], LAMBDA f :
               /\ Range(f.calls) \subseteq OwnCards(f.body)
               /\ Range(f.taken) \subseteq Range(f.calls)
               /\ f.embed # Null => BuildHandlerEmbed(f.body, hostZone) = Returned(f.embed)
               /\ (Len(f.calls) >= 1 /\ f.embed # Null) => f.calls[1] = f.embed
               /\ (Len(f.calls) >= 1 /\ f.embed = Null) =>
                    FallbackEmbed(f.body) = Returned(f.calls[1])
               /\ Len(f.calls) = 2 => FallbackEmbed(f.body) = Returned(f.calls[2])
               /\ Len(f.calls) <= 2)
        /\ \A n \in DOMAIN sink : \E d \in DOMAIN flights : sink[n] \in Range(flights[d].taken))
  /\ [][\A d \in DOMAIN flights :
          /\ flights'[d].body = flights[d].body
          /\ flights[d].embed # Null => flights'[d].embed = flights[d].embed
          /\ IsPrefix(flights[d].calls, flights'[d].calls)
          /\ IsPrefix(flights[d].taken, flights'[d].taken)]_vars

\* two deliveries with different bodies were in flight together: the second handler ran
\* while the first one's send was pending, the sends settled in the other order, and
\* each delivery's card is the card of its own body
C28_Witness ==
  /\ \A d \in DOMAIN flights : flights[d].pc = "done"
  /\ flights[1].body # flights[2].body
  /\ flights[1].turn = 1
  /\ flights[2].turn = 2
  /\ Len(sink) >= 2
  /\ sink[1] = flights[2].embed
  /\ sink[2] = flights[1].embed
  /\ flights[1].embed # flights[2].embed
  /\ flights[1].taken = <<flights[1].embed>>
  /\ flights[2].taken = <<flights[2].embed>>

====
